---- MODULE Spec2Model ----
(***************************************************************************)
(* Native-app OAuth2 login shortcut (native_auth) and the sectioned        *)
(* key-value token storage (save_tokens / load_tokens / clear_tokens) of   *)
(* globus_sdk, over the GlobusConfigParser section store.                  *)
(*                                                                         *)
(* Python strings are sequences of one-character strings, so that          *)
(* replace, join, split and concatenation are computed, not assumed.       *)
(***************************************************************************)
EXTENDS Integers, Sequences, FiniteSets, TLC

----------------------------------------------------------------------------
(* Bounds of the model *)

\* the clock runs over 1..MaxTime; expires_at_seconds ranges over 0..MaxTime
MaxTime == 2

\* the most requests that reach one listener
MaxRequests == 2

----------------------------------------------------------------------------
(* Python values: None, int, str *)

PyNone == [t |-> "none", s |-> <<>>, n |-> 0]

PyStr(chars) == [t |-> "str", s |-> chars, n |-> 0]

PyInt(i) == [t |-> "int", s |-> <<>>, n |-> i]

\* bool(v) of Python for the three kinds of value
Truthy(v) == \/ v.t = "str" /\ v.s # <<>>
             \/ v.t = "int" /\ v.n # 0

Range(f) == {f[i] : i \in DOMAIN f}

\* str.replace(old, new) for single characters
RECURSIVE Replace(_, _, _)
Replace(chars, old, new) ==
    IF chars = <<>> THEN <<>>
    ELSE <<IF Head(chars) = old THEN new ELSE Head(chars)>>
         \o Replace(Tail(chars), old, new)

\* sep.join(parts)
RECURSIVE Join(_, _)
Join(sep, parts) ==
    IF parts = <<>> THEN <<>>
    ELSE IF Len(parts) = 1 THEN parts[1]
    ELSE parts[1] \o sep \o Join(sep, Tail(parts))

\* str.split(sep) for a one-character separator: keeps empty pieces
RECURSIVE SplitOn(_, _, _)
SplitOn(chars, sep, cur) ==
    IF chars = <<>> THEN <<cur>>
    ELSE IF Head(chars) = sep THEN <<cur>> \o SplitOn(Tail(chars), sep, <<>>)
    ELSE SplitOn(Tail(chars), sep, Append(cur, Head(chars)))

\* str.split() without argument: splits on runs of blanks, drops empty pieces
RECURSIVE SplitBlank(_, _)
SplitBlank(chars, cur) ==
    IF chars = <<>> THEN (IF cur = <<>> THEN <<>> ELSE <<cur>>)
    ELSE IF Head(chars) = " "
         THEN (IF cur = <<>> THEN <<>> ELSE <<cur>>) \o SplitBlank(Tail(chars), <<>>)
    ELSE SplitBlank(Tail(chars), Append(cur, Head(chars)))

Digits == <<"0", "1", "2", "3", "4", "5", "6", "7", "8", "9">>

\* str(i) for an int: decimal digits, with a sign for negatives
RECURSIVE NatToStr(_)
NatToStr(i) ==
    IF i < 10 THEN <<Digits[i + 1]>>
    ELSE NatToStr(i \div 10) \o <<Digits[(i % 10) + 1]>>

IntToStr(i) == IF i < 0 THEN <<"-">> \o NatToStr(0 - i) ELSE NatToStr(i)

DigitVal(c) == CHOOSE d \in 0..9 : Digits[d + 1] = c

IsDigits(chars) == chars # <<>> /\ \A i \in DOMAIN chars : chars[i] \in Range(Digits)

RECURSIVE DigitsToNat(_, _)
DigitsToNat(chars, acc) ==
    IF chars = <<>> THEN acc
    ELSE DigitsToNat(Tail(chars), acc * 10 + DigitVal(Head(chars)))

\* int(s) succeeds on an optional sign followed by digits
IsIntStr(chars) ==
    IF chars # <<>> /\ Head(chars) = "-" THEN IsDigits(Tail(chars)) ELSE IsDigits(chars)

StrToInt(chars) ==
    IF Head(chars) = "-" THEN 0 - DigitsToNat(Tail(chars), 0) ELSE DigitsToNat(chars, 0)

----------------------------------------------------------------------------
(* token_storage.py: constants *)

TOKEN_KEYS ==
    <<"scope", "access_token", "refresh_token", "token_type",
      "expires_at_seconds", "resource_server">>

REQUIRED_KEYS == <<"scope", "access_token", "expires_at_seconds", "resource_server">>

\* the text of each field name, as it is appended to a config key
KeyChars ==
    [scope |-> <<"s", "c", "o", "p", "e">>,
     access_token |-> <<"a", "c", "c", "e", "s", "s", "_", "t", "o", "k", "e", "n">>,
     refresh_token |-> <<"r", "e", "f", "r", "e", "s", "h", "_", "t", "o", "k", "e", "n">>,
     token_type |-> <<"t", "o", "k", "e", "n", "_", "t", "y", "p", "e">>,
     expires_at_seconds |-> <<"e", "x", "p", "i", "r", "e", "s", "_", "a", "t", "_",
                              "s", "e", "c", "o", "n", "d", "s">>,
     resource_server |-> <<"r", "e", "s", "o", "u", "r", "c", "e", "_",
                           "s", "e", "r", "v", "e", "r">>]

CONFIG_TOKEN_GROUPS == <<"t", "o", "k", "e", "n", "_", "g", "r", "o", "u", "p", "s">>

----------------------------------------------------------------------------
(* State *)

VARIABLES
    sections,   \* config.py: sections the parser holds (has_section)
    store,      \* config.py: section -> (option name -> value), all strings
    now,        \* time.time(), in whole seconds
    last,       \* the last direct call of the token storage API and its outcome
    pc,         \* native_auth: position of the current run
    opts,       \* native_auth: the resolved options of the current run
    events,     \* native_auth: what the current run has done so far, in order
    run,        \* native_auth: details of the current run's steps
    result,     \* native_auth: what the run returned or raised
    file,       \* file_adapters.py: what is at self.filename
    adapter,    \* file_adapters.py: the store() call under way, if any
    dlast,      \* the last call of the file adapter and its outcome
    perm,       \* the process's umask and the permission bits of the two files
    writers     \* two processes that write to the same section and the same file

vars == <<sections, store, now, last, pc, opts, events, run, result,
          file, adapter, dlast, perm, writers>>

\* the token storage and native_auth leave the adapter's file alone
DocUnchanged == UNCHANGED <<file, adapter, dlast>>

\* the file adapter leaves the config store and native_auth alone
ConfigUnchanged ==
    UNCHANGED <<sections, store, now, last, pc, opts, events, run, result>>

\* permission bits of a file: read, write, execute ("r", "w", "x") for the
\* user, the group and others ("u", "g", "o")
\* the mode open() asks for when it creates a file: 0o666
Mode666 == {"ur", "uw", "gr", "gw", "or", "ow"}

OwnerOnly == {"ur", "uw"}

\* the umask a process usually starts with: 0o022
UMASK_022 == {"gw", "ow"}

\* config.py line 184: os.umask(0o077)
UMASK_077 == {"gr", "gw", "gx", "or", "ow", "ox"}

\* file_adapters.py line 99: "deny rwx to Group and World, exec to User"
user_only_umask == UMASK_077 \cup {"ux"}

NoFile == [exists |-> FALSE, bits |-> {}]

\* open(path, "w"): a file that does not exist is created with the requested
\* mode less the umask; a file that exists is truncated and keeps its mode
OpenForWrite(f, umask) ==
    IF f.exists THEN f ELSE [exists |-> TRUE, bits |-> Mode666 \ umask]

\* config.py _save, lines 184-186: the umask is set and never restored, then
\* the file is opened for writing
ConfigSave(p) ==
    [p EXCEPT !.umask = UMASK_077, !.cfg = OpenForWrite(@, UMASK_077),
              !.wrote = @ \cup {"cfg"}]

\* file_adapters.py store, lines 100-101: the file is opened for writing under
\* user_only_umask, and the umask is restored on leaving the block
DocOpen(p) ==
    [p EXCEPT !.doc = OpenForWrite(@, user_only_umask), !.wrote = @ \cup {"doc"}]

PermUnchanged == UNCHANGED perm

WritersUnchanged == UNCHANGED writers

SectionNames == {"cid", "sec"}

EmptyItems == [k \in {} |-> <<>>]

----------------------------------------------------------------------------
(* config.py: GlobusConfigParser get_section / set / remove *)

\* the dict of a section, or None when the parser has no such section
get_section(section) ==
    IF section \in sections
    THEN [none |-> FALSE, items |-> store[section]]
    ELSE [none |-> TRUE, items |-> EmptyItems]

\* items of a section after set(option, value, section): the option is added or overwritten
SetItem(items, option, value) ==
    [k \in DOMAIN items \cup {option} |-> IF k = option THEN value ELSE items[k]]

\* items of a section after remove(option, section)
RemoveItem(items, option) ==
    [k \in DOMAIN items \ {option} |-> items[k]]

----------------------------------------------------------------------------
(* token_storage.py: key names *)

serialize_token(resource_server, token) ==
    Replace(resource_server, ".", "_") \o <<"_">> \o token

deserialize_token(grouping, token) == grouping \o token

\* the config value written for a token field: ints become str, None becomes ""
SerializeValue(value) ==
    IF value.t = "int" THEN IntToStr(value.n)
    ELSE IF value.t = "none" THEN <<>>
    ELSE value.s

\* the six config entries of one token set, written over the entries built so far
RECURSIVE SerializeFields(_, _, _)
SerializeFields(token_set, keys, serialized_items) ==
    IF keys = <<>> THEN serialized_items
    ELSE SerializeFields(
            token_set, Tail(keys),
            SetItem(serialized_items,
                    serialize_token(token_set.resource_server.s, KeyChars[Head(keys)]),
                    SerializeValue(token_set[Head(keys)])))

RECURSIVE SerializeSets(_, _)
SerializeSets(tokens, serialized_items) ==
    IF tokens = <<>> THEN serialized_items
    ELSE SerializeSets(Tail(tokens),
                       SerializeFields(Head(tokens), TOKEN_KEYS, serialized_items))

\* tokens: the values() of the dict, in its order
serialize_token_groups(tokens) ==
    SetItem(SerializeSets(tokens, EmptyItems),
            CONFIG_TOKEN_GROUPS,
            Join(<<",">>,
                 [i \in DOMAIN tokens |->
                     serialize_token(tokens[i].resource_server.s, <<>>)]))

\* config_items.get(key): the stored string, or None
ItemGet(items, key) == IF key \in DOMAIN items THEN PyStr(items[key]) ELSE PyNone

\* the raw dict of one group, before int() and before the falsy-to-None pass
RawSet(items, group) ==
    [k \in Range(TOKEN_KEYS) |-> ItemGet(items, deserialize_token(group, KeyChars[k]))]

\* int(tset["expires_at_seconds"]) raises on None and on a non-number
IntFails(raw) ==
    \/ raw.expires_at_seconds.t = "none"
    \/ ~IsIntStr(raw.expires_at_seconds.s)

\* tset after int() of the expiry and {k: v if v else None}
CookedSet(raw) ==
    [k \in Range(TOKEN_KEYS) |->
        LET v == IF k = "expires_at_seconds" THEN PyInt(StrToInt(raw[k].s)) ELSE raw[k]
        IN  IF Truthy(v) THEN v ELSE PyNone]

\* token_groups[tset["resource_server"]] = tset, on a dict kept as the sequence of
\* its values in insertion order
DictPut(token_groups, tset) ==
    IF \E i \in DOMAIN token_groups :
          token_groups[i].resource_server = tset.resource_server
    THEN [i \in DOMAIN token_groups |->
            IF token_groups[i].resource_server = tset.resource_server
            THEN tset ELSE token_groups[i]]
    ELSE Append(token_groups, tset)

RECURSIVE DeserializeGroups(_, _, _)
DeserializeGroups(items, groups, token_groups) ==
    IF groups = <<>> THEN [raised |-> FALSE, tokens |-> token_groups]
    ELSE IF IntFails(RawSet(items, Head(groups)))
         THEN [raised |-> TRUE, tokens |-> <<>>]
    ELSE DeserializeGroups(items, Tail(groups),
                           DictPut(token_groups, CookedSet(RawSet(items, Head(groups)))))

\* config_items: the result of get_section. Raises on None (no .get), on a missing
\* token_groups entry (no .split) and where int() fails.
deserialize_token_groups(config_items) ==
    IF config_items.none \/ CONFIG_TOKEN_GROUPS \notin DOMAIN config_items.items
    THEN [raised |-> TRUE, tokens |-> <<>>]
    ELSE DeserializeGroups(config_items.items,
                           SplitOn(config_items.items[CONFIG_TOKEN_GROUPS], ",", <<>>),
                           <<>>)

----------------------------------------------------------------------------
(* token_storage.py: load_tokens *)

\* requested_scopes: an iterable of scope strings, or one string
ReqIter(names) == [isStr |-> FALSE, s |-> <<>>, names |-> names]

ReqStr(chars) == [isStr |-> TRUE, s |-> chars, names |-> <<>>]

\* the default requested_scopes=()
NoScopes == ReqIter(<<>>)

\* bool(requested_scopes)
ReqTruthy(requested_scopes) ==
    IF requested_scopes.isStr THEN requested_scopes.s # <<>>
    ELSE requested_scopes.names # <<>>

\* set(requested_scopes): the elements of the iterable; a str iterates its characters
ReqSet(requested_scopes) ==
    IF requested_scopes.isStr
    THEN {<<requested_scopes.s[i]>> : i \in DOMAIN requested_scopes.s}
    ELSE Range(requested_scopes.names)

Ok(tokens) == [err |-> "none", tokens |-> tokens]

Raise(err) == [err |-> err, tokens |-> <<>>]

\* a required-field check that leaves out the access token
Missing_NoAccessToken(tok_set) ==
    {mk \in Range(REQUIRED_KEYS) \ {"access_token"} : ~Truthy(tok_set[mk])}

\* missing = [mk for mk in REQUIRED_KEYS if not tok_set.get(mk)]
Missing(tok_set) == {mk \in Range(REQUIRED_KEYS) : ~Truthy(tok_set[mk])}

\* {s for slist in scope_lists for s in slist}
LoadedScopes(loaded_tokens) ==
    UNION {Range(SplitBlank(loaded_tokens[i].scope.s, <<>>)) : i \in DOMAIN loaded_tokens}

\* the difference taken the other way round: requested scopes that are not stored
ScopeMismatch_Reversed(loaded_tokens, requested_scopes) ==
    ReqSet(requested_scopes) \ LoadedScopes(loaded_tokens) # {}

\* loaded_scopes.difference(set(requested_scopes))
ScopeMismatch(loaded_tokens, requested_scopes) ==
    LoadedScopes(loaded_tokens) \ ReqSet(requested_scopes) # {}

\* an expiry test that lets a token live through its last second
Expired_Strict(t) == now > t.expires_at_seconds.n

\* time.time() >= t["expires_at_seconds"]
Expired(t) == now >= t.expires_at_seconds.n

\* a load that tests the expiry before the scopes
load_tokens_ExpiryFirst(config_section, requested_scopes, check_expired) ==
    LET loaded == deserialize_token_groups(get_section(config_section))
        loaded_tokens == loaded.tokens
    IN  IF loaded.raised THEN Raise("ConfigError")
        ELSE IF \E i \in DOMAIN loaded_tokens : Missing(loaded_tokens[i]) # {}
             THEN Raise("ConfigError")
        ELSE IF /\ check_expired
                /\ \E i \in DOMAIN loaded_tokens : Expired(loaded_tokens[i])
             THEN Raise("LoadedTokensExpired")
        ELSE IF /\ ReqTruthy(requested_scopes)
                /\ ScopeMismatch(loaded_tokens, requested_scopes)
             THEN Raise("RequestedScopesMismatch")
        ELSE Ok(loaded_tokens)

load_tokens(config_section, requested_scopes, check_expired) ==
    LET loaded == deserialize_token_groups(get_section(config_section))
        loaded_tokens == loaded.tokens
    IN  IF loaded.raised THEN Raise("ConfigError")
        ELSE IF \E i \in DOMAIN loaded_tokens : Missing(loaded_tokens[i]) # {}
             THEN Raise("ConfigError")
        ELSE IF /\ ReqTruthy(requested_scopes)
                /\ ScopeMismatch(loaded_tokens, requested_scopes)
             THEN Raise("RequestedScopesMismatch")
        ELSE IF /\ check_expired
                /\ \E i \in DOMAIN loaded_tokens : Expired(loaded_tokens[i])
             THEN Raise("LoadedTokensExpired")
        ELSE Ok(loaded_tokens)

\* lines 74-93: the checks of load_tokens on a loaded set, and what they raise
Validation(loaded_tokens, requested_scopes, check_expired) ==
    IF \E i \in DOMAIN loaded_tokens : Missing(loaded_tokens[i]) # {}
    THEN "ConfigError"
    ELSE IF /\ ReqTruthy(requested_scopes)
            /\ ScopeMismatch(loaded_tokens, requested_scopes)
         THEN "RequestedScopesMismatch"
    ELSE IF /\ check_expired
            /\ \E i \in DOMAIN loaded_tokens : Expired(loaded_tokens[i])
         THEN "LoadedTokensExpired"
    ELSE "none"

\* exc.py: RequestedScopesMismatch and LoadedTokensExpired derive from ConfigError
IsConfigError(err) ==
    err \in {"ConfigError", "RequestedScopesMismatch", "LoadedTokensExpired"}

----------------------------------------------------------------------------
(* token_storage.py: save_tokens and clear_tokens *)

\* the items of the section after config.set of every serialized entry
SavedItems(items, cfg_tokens) ==
    [k \in DOMAIN items \cup DOMAIN cfg_tokens |->
        IF k \in DOMAIN cfg_tokens THEN cfg_tokens[k] ELSE items[k]]

save_tokens(tokens, config_section) ==
    SavedItems(get_section(config_section).items, serialize_token_groups(tokens))

\* a clear that removes no entry
ClearedItems_Kept(items, cfg_tsets) == items

\* the items of the section after config.remove of every serialized name and of
\* the token_groups entry
ClearedItems(items, cfg_tsets) ==
    [k \in (DOMAIN items \ DOMAIN cfg_tsets) \ {CONFIG_TOKEN_GROUPS} |-> items[k]]

\* a clear that goes on to delete although nothing was loaded
NothingLoaded_Ignored(tokens) == FALSE

\* if not tokens: return False
NothingLoaded(tokens) == tokens = <<>>

\* a revoke call whose failure clear_tokens swallows
RevokeRaises_Swallowed(tokens, revoke_fails_at) == FALSE

\* naac.oauth2_revoke_token(...) inside the try: no except clause names its
\* exception, so the failure of the call at revoke_fails_at leaves clear_tokens
RevokeRaises(tokens, revoke_fails_at) == revoke_fails_at \in 1..Len(tokens)

\* a second load that tests the expiry again
reload_check_expired_Again == TRUE

\* except LoadedTokensExpired: load_tokens(..., check_expired=False)
reload_check_expired == FALSE

\* revoke_fails_at: 0 when every oauth2_revoke_token call succeeds, else the index
\* of the call that raises. The result: the return value, the exception that
\* leaves clear_tokens ("none" when it returns), the access tokens handed to
\* oauth2_revoke_token in order, and the items of the section afterwards.
clear_tokens(config_section, revoke_fails_at) ==
    LET items == get_section(config_section).items
        first == load_tokens(config_section, NoScopes, TRUE)
        again == load_tokens(config_section, NoScopes, reload_check_expired)
        calls == IF first.err # "none" THEN 0
                 ELSE IF revoke_fails_at \in 1..Len(first.tokens) THEN revoke_fails_at
                 ELSE Len(first.tokens)
        revoked == [i \in 1..calls |-> first.tokens[i].access_token.s]
        unchanged(ret, err) ==
            [ret |-> ret, err |-> err, revoked |-> revoked, items |-> items]
        deleted(tokens) ==
            IF NothingLoaded(tokens) THEN unchanged(FALSE, "none")
            ELSE [ret |-> TRUE, err |-> "none", revoked |-> revoked,
                  items |-> ClearedItems(items, serialize_token_groups(tokens))]
    IN  IF first.err = "none"
        THEN IF RevokeRaises(first.tokens, revoke_fails_at)
             THEN unchanged(FALSE, "AuthAPIError")
             ELSE deleted(first.tokens)
        ELSE IF first.err = "LoadedTokensExpired"
             THEN IF again.err # "none" THEN unchanged(FALSE, again.err)
                  ELSE deleted(again.tokens)
        ELSE deleted(<<>>)

----------------------------------------------------------------------------
(* Inputs *)

RS_AB == <<"a", ".", "b">>

RS_A_B == <<"a", "_", "b">>

RS_C == <<"c">>

RSNames == {RS_AB, RS_A_B, RS_C}

SC_X == <<"x">>

SC_YZ == <<"y", "z">>

SC_X_YZ == <<"x", " ", "y", "z">>

\* one token set as by_resource_server holds it; absent fields are None
Tok(rs, scope, access, refresh, type, expires) ==
    [scope |-> PyStr(scope), access_token |-> PyStr(access), refresh_token |-> refresh,
     token_type |-> type, expires_at_seconds |-> PyInt(expires),
     resource_server |-> PyStr(rs)]

\* a stored-before token set of a resource server, expiring at e
OldTok(rs, e) ==
    IF rs = RS_AB THEN Tok(rs, SC_X, <<"t", "1">>, PyNone, PyStr(<<"B">>), e)
    ELSE IF rs = RS_A_B THEN Tok(rs, SC_X_YZ, <<"t", "2">>, PyStr(<<"r">>), PyNone, e)
    ELSE Tok(rs, SC_YZ, <<"t", "3">>, PyStr(<<"r">>), PyStr(<<"B">>), e)

\* a token set as a fresh exchange returns it
NewTok(rs) == Tok(rs, SC_X, <<"n">>, PyNone, PyStr(<<"B">>), now + 1)

OldToks == {OldTok(rs, e) : rs \in RSNames, e \in 0..MaxTime}

\* dicts of one or two token sets, keyed by their resource_server
TokenSets ==
    {<<a>> : a \in OldToks}
    \cup {<<OldTok(RS_AB, e), OldTok(rs, f)>> :
            e \in 0..MaxTime, rs \in {RS_A_B, RS_C}, f \in {1, MaxTime}}

\* what the store is seeded with before a run of native_auth
SeedSets ==
    {<<OldTok(RS_AB, MaxTime)>>,
     <<OldTok(RS_AB, MaxTime), OldTok(RS_C, 1)>>,
     <<OldTok(RS_A_B, 0)>>}

ExchangeSets == {<<NewTok(RS_AB)>>, <<NewTok(RS_C)>>}

RequestedChoices ==
    {NoScopes, ReqIter(<<SC_X>>), ReqIter(<<SC_X, SC_YZ>>), ReqStr(SC_X_YZ)}

----------------------------------------------------------------------------
(* Direct calls of the token storage API *)

\* no run of native_auth is under way: the caller is free to call the API
Idle == pc = "idle"

NoCall ==
    [op |-> "none", section |-> "", tokens |-> <<>>, req |-> NoScopes, chk |-> FALSE,
     err |-> "none", ret |-> FALSE, revoked |-> <<>>, fails |-> 0, had |-> FALSE,
     before |-> EmptyItems]

NativeUnchanged == UNCHANGED <<pc, opts, events, run, result>>

SaveTokens(tokens, config_section) ==
    /\ WritersUnchanged
    /\ DocUnchanged
    /\ perm' = ConfigSave(perm)
    /\ Idle
    /\ store' = [store EXCEPT ![config_section] = save_tokens(tokens, config_section)]
    /\ sections' = sections \cup {config_section}
    /\ last' = [NoCall EXCEPT !.op = "save", !.section = config_section,
                              !.tokens = tokens]
    /\ UNCHANGED now
    /\ NativeUnchanged

LoadTokens(config_section, requested_scopes, check_expired) ==
    /\ WritersUnchanged
    /\ DocUnchanged
    /\ PermUnchanged
    /\ Idle
    /\ LET r == load_tokens(config_section, requested_scopes, check_expired)
       IN  last' = [NoCall EXCEPT !.op = "load", !.section = config_section,
                                  !.req = requested_scopes, !.chk = check_expired,
                                  !.err = r.err, !.tokens = r.tokens]
    /\ UNCHANGED <<sections, store, now>>
    /\ NativeUnchanged

\* the indexes at which a revoke call of clear_tokens can fail, 0 for none
RevokeChoices(config_section) ==
    0..Len(load_tokens(config_section, NoScopes, TRUE).tokens)

ClearTokens(config_section) ==
    /\ WritersUnchanged
    /\ DocUnchanged
    /\ Idle
    /\ \E revoke_fails_at \in RevokeChoices(config_section) :
          LET c == clear_tokens(config_section, revoke_fails_at)
          IN  /\ store' = [store EXCEPT ![config_section] = c.items]
              /\ last' = [NoCall EXCEPT !.op = "clear", !.section = config_section,
                                        !.err = c.err, !.ret = c.ret,
                                        !.revoked = c.revoked,
                                        !.fails = revoke_fails_at,
                                        !.had = config_section \in sections,
                                        !.before = store[config_section]]
              /\ perm' = IF c.ret THEN ConfigSave(perm) ELSE perm
    /\ UNCHANGED <<sections, now>>
    /\ NativeUnchanged

\* config.remove(option, section) on a stored section, as a caller of the parser
\* may do; here of one group's access_token entry
ConfigRemove(rs, config_section) ==
    /\ WritersUnchanged
    /\ DocUnchanged
    /\ perm' = ConfigSave(perm)
    /\ Idle
    /\ config_section \in sections
    /\ serialize_token(rs, KeyChars.access_token) \in DOMAIN store[config_section]
    /\ store' = [store EXCEPT ![config_section] =
                    RemoveItem(@, serialize_token(rs, KeyChars.access_token))]
    /\ last' = NoCall
    /\ UNCHANGED <<sections, now>>
    /\ NativeUnchanged

\* the config file is made from outside the SDK, by a program that runs with
\* the usual umask, before the SDK has written it
ConfigFileOutside ==
    /\ WritersUnchanged
    /\ DocUnchanged
    /\ Idle
    /\ ~perm.cfg.exists
    /\ perm' = [perm EXCEPT !.cfg = OpenForWrite(@, UMASK_022)]
    /\ UNCHANGED <<sections, store, now, last>>
    /\ NativeUnchanged

\* time passes
Tick ==
    /\ WritersUnchanged
    /\ DocUnchanged
    /\ PermUnchanged
    /\ now < MaxTime
    /\ now' = now + 1
    /\ UNCHANGED <<sections, store, last, pc, opts, events, run, result>>

----------------------------------------------------------------------------
(* oauth2_native_app_shortcut.py: native_auth *)

AUTH_CODE_REDIRECT == "https://auth.globus.org/v2/web/auth-code"

\* config.py line 47: the file the parser writes to unless
\* set_write_config_file has named another
DEFAULT_WRITE_PATH == "~/.globus-native-apps.cfg"

\* the file behind get_parser(), which save_tokens, load_tokens and
\* clear_tokens call without a filename; o is the run's options
write_path(o) == DEFAULT_WRITE_PATH

\* the options that decide what a run does to the store, the listener and the
\* authorization request
NATIVE_AUTH_DEFAULTS ==
    [config_filename |-> "~/.globus-native-apps.cfg",
     config_section |-> "None",
     client_id |-> "cid",
     requested_scopes |-> ReqIter(<<SC_X, SC_YZ>>),
     save_tokens |-> FALSE,
     check_tokens_expired |-> TRUE,
     force_login |-> FALSE,
     no_local_server |-> FALSE,
     redirect_uri |-> "http://localhost:8890/"]

NoKwargs == [k \in {} |-> FALSE]

\* keyword arguments that decide between the stored tokens and a fresh flow:
\* each option is passed or left out
LoginKwargs ==
    {   (IF fl THEN "force_login" :> TRUE ELSE NoKwargs)
     @@ (IF st THEN "save_tokens" :> TRUE ELSE NoKwargs)
     @@ (IF nce THEN "check_tokens_expired" :> FALSE ELSE NoKwargs)
     @@ (IF rq THEN "requested_scopes" :> ReqIter(<<SC_X>>) ELSE NoKwargs)
     : fl \in BOOLEAN, st \in BOOLEAN, nce \in BOOLEAN, rq \in BOOLEAN}

\* keyword arguments for the partition, the listener and the redirect, and
\* names that are no option
OtherKwargs ==
    {"config_filename" :> "tokens.cfg" @@ "save_tokens" :> TRUE,
     "requested_scopes" :> ReqStr(SC_X_YZ) @@ "check_tokens_expired" :> FALSE,
     "config_section" :> "sec",
     "config_section" :> "sec" @@ "save_tokens" :> TRUE,
     "no_local_server" :> TRUE,
     "no_local_server" :> TRUE @@ "redirect_uri" :> "http://example.com/login",
     "redirect_uri" :> "http://example.com/login",
     "conquer_the_world" :> TRUE,
     "conquer_the_world" :> TRUE @@ "save_tokens" :> TRUE,
     "" :> TRUE,
     "" :> TRUE @@ "save_tokens" :> TRUE @@ "force_login" :> TRUE}

KwargsChoices == LoginKwargs \cup OtherKwargs

\* unaccepted = [k for k in kwargs.keys() if k not in NATIVE_AUTH_DEFAULTS.keys()]
Unaccepted(kwargs) == {k \in DOMAIN kwargs : k \notin DOMAIN NATIVE_AUTH_DEFAULTS}

\* any(unaccepted): some name in the list is truthy, that is, not the empty string
AnyUnaccepted(kwargs) == \E k \in Unaccepted(kwargs) : k # ""

\* options resolved without the copy-paste redirect default
ResolveOpts_Merged(kwargs) ==
    [k \in DOMAIN NATIVE_AUTH_DEFAULTS |->
        IF k \in DOMAIN kwargs THEN kwargs[k] ELSE NATIVE_AUTH_DEFAULTS[k]]

\* opts = {k: kwargs.get(k, v) ...}, then the copy-paste redirect default
ResolveOpts(kwargs) ==
    LET merged == [k \in DOMAIN NATIVE_AUTH_DEFAULTS |->
                      IF k \in DOMAIN kwargs THEN kwargs[k] ELSE NATIVE_AUTH_DEFAULTS[k]]
    IN  IF /\ merged.no_local_server = TRUE
           /\ merged.redirect_uri = NATIVE_AUTH_DEFAULTS.redirect_uri
        THEN [merged EXCEPT !.redirect_uri = AUTH_CODE_REDIRECT]
        ELSE merged

\* a run that keeps its tokens under the client id whatever config_section says
ConfigSection_ClientIdOnly(o) == o.client_id

\* config_section = opts["config_section"] or opts["client_id"]
ConfigSection(o) ==
    IF o.config_section \in {"None", ""} THEN o.client_id ELSE o.config_section

\* a request that reaches the listener: kind is "code" or "error" for a redirect
\* with that query parameter, "other" for any other request; text is the value
\* of the parameter
NoRequest == [kind |-> "none", text |-> ""]

RedirectChoices ==
    {[kind |-> "code", text |-> "c1"], [kind |-> "code", text |-> "c2"],
     [kind |-> "error", text |-> "e1"], [kind |-> "other", text |-> ""]}

NoRun ==
    [unaccepted |-> {}, given_redirect |-> "unset", filename |-> "", section |-> "", had |-> FALSE, before |-> EmptyItems,
     load_err |-> "none", cached |-> <<>>,
     revoked |-> <<>>, redirect_uri |-> "", exchanged |-> <<>>, listener |-> "none",
     outcome |-> NoRequest, requests |-> 0, first |-> NoRequest, ignored |-> 0,
     auth_code |-> "", err_text |-> ""]

Did(e) == \E i \in DOMAIN events : events[i] = e

\* a run that tries the stored tokens whatever force_login says
TryLoad_Always(o) == TRUE

\* if opts["force_login"] is False
TryLoad(o) == o.force_login = FALSE

\* the stored set a load with the run's options would return now, <<>> when
\* that load would fail
Cached(o) ==
    LET r == load_tokens(ConfigSection(o), o.requested_scopes, o.check_tokens_expired)
    IN  IF r.err = "none" THEN r.tokens ELSE <<>>

\* lines 120-133: the option check, the defaults, the partition
NativeAuthCall(kwargs) ==
    /\ WritersUnchanged
    /\ DocUnchanged
    /\ PermUnchanged
    /\ Idle
    /\ events' = <<>>
    /\ IF AnyUnaccepted(kwargs)
       THEN /\ pc' = "raised"
            /\ result' = Raise("ValueError")
            /\ run' = [NoRun EXCEPT !.unaccepted = Unaccepted(kwargs)]
            /\ UNCHANGED opts
       ELSE LET o == ResolveOpts(kwargs)
            IN  /\ opts' = o
                /\ run' = [NoRun EXCEPT !.unaccepted = Unaccepted(kwargs),
                                        !.given_redirect =
                                            IF "redirect_uri" \in DOMAIN kwargs
                                            THEN kwargs["redirect_uri"]
                                            ELSE "unset",
                                        !.filename = write_path(o),
                                        !.section = ConfigSection(o),
                                        !.had = ConfigSection(o) \in sections,
                                        !.before = store[ConfigSection(o)],
                                        !.cached = Cached(o)]
                /\ result' = Ok(<<>>)
                /\ pc' = IF TryLoad(o) THEN "load" ELSE "clear"
    /\ last' = NoCall
    /\ UNCHANGED <<sections, store, now>>

\* the caller takes what the run returned or raised
NativeAuthDone ==
    /\ WritersUnchanged
    /\ DocUnchanged
    /\ PermUnchanged
    /\ pc \in {"returned", "raised"}
    /\ pc' = "idle"
    /\ opts' = NATIVE_AUTH_DEFAULTS
    /\ events' = <<>>
    /\ run' = NoRun
    /\ result' = Ok(<<>>)
    /\ UNCHANGED <<sections, store, now, last>>

\* a load step that starts the flow even when the stored tokens are good
AfterLoad_NeverReturn(err) == IF IsConfigError(err) \/ err = "none" THEN "clear" ELSE "raised"

\* a load step whose handler catches the plain ConfigError only
AfterLoad_Uncaught(err) ==
    IF err = "none" THEN "returned" ELSE IF err = "ConfigError" THEN "clear" ELSE "raised"

\* where the run goes after load_tokens: return on success, the flow on a
\* ConfigError (except ConfigError), out of native_auth on anything else
AfterLoad(err) ==
    IF err = "none" THEN "returned" ELSE IF IsConfigError(err) THEN "clear" ELSE "raised"

\* lines 135-144: return the stored tokens, or log the ConfigError and go on
NativeAuthLoad ==
    /\ WritersUnchanged
    /\ DocUnchanged
    /\ PermUnchanged
    /\ pc = "load"
    /\ LET r == load_tokens(run.section, opts.requested_scopes,
                            opts.check_tokens_expired)
       IN  /\ events' = Append(events, "load")
           /\ run' = [run EXCEPT !.load_err = r.err]
           /\ pc' = AfterLoad(r.err)
           /\ IF AfterLoad(r.err) = "clear" THEN UNCHANGED result ELSE result' = r
    /\ UNCHANGED <<sections, store, now, last, opts>>

\* line 147: clear_tokens(config_section, client_id); its exceptions propagate
NativeAuthClear ==
    /\ WritersUnchanged
    /\ DocUnchanged
    /\ pc = "clear"
    /\ \E revoke_fails_at \in RevokeChoices(run.section) :
          LET c == clear_tokens(run.section, revoke_fails_at)
          IN  /\ store' = [store EXCEPT ![run.section] = c.items]
              /\ run' = [run EXCEPT !.revoked = c.revoked]
              /\ perm' = IF c.ret THEN ConfigSave(perm) ELSE perm
              /\ IF c.err = "none"
                 THEN pc' = "start" /\ UNCHANGED result
                 ELSE pc' = "raised" /\ result' = Raise(c.err)
    /\ events' = Append(events, "clear")
    /\ UNCHANGED <<sections, now, last, opts>>

\* a run that presents the URL before it has a listener
AfterStartFlow_PromptFirst(o) == "prompt"

\* line 160: if opts["no_local_server"] is False, the listener comes next
AfterStartFlow(o) == IF o.no_local_server = FALSE THEN "acquire" ELSE "prompt"

\* lines 149-158: the client, oauth2_start_flow and the authorize URL
NativeAuthStartFlow ==
    /\ WritersUnchanged
    /\ DocUnchanged
    /\ PermUnchanged
    /\ pc = "start"
    /\ events' = Append(events, "client")
    /\ run' = [run EXCEPT !.redirect_uri = opts.redirect_uri]
    /\ pc' = AfterStartFlow(opts)
    /\ UNCHANGED <<sections, store, now, last, opts, result>>

\* a listener that takes any request for the redirect
WellFormedRedirect_Any(request) == TRUE

\* a request the listener takes as the redirect: it has a code or an error
\* parameter
WellFormedRedirect(request) == request.kind \in {"code", "error"}

\* a listener whose result is the latest redirect
Capture_LastWins(outcome, request) ==
    IF WellFormedRedirect(request) THEN request ELSE outcome

\* what the listener holds after a request: the first well-formed one wins, any
\* other request is acknowledged and ignored
Capture(outcome, request) ==
    IF outcome = NoRequest /\ WellFormedRedirect(request) THEN request ELSE outcome

\* a scope exit that leaves the socket and the thread in place
Released_Leaked(listener) == listener

\* the listener's socket and thread after the scope's exit
Released(listener) == IF listener = "bound" THEN "released" ELSE listener

\* with start_local_server(...) as server: the block's exit runs on every way
\* out of it, a returned code ("code"), a raising wait ("error") or any other
\* exception ("exception")
ScopeExits(how) == TRUE

\* the run's listener fields once the block is left in the way how
LeaveScope(r, how) ==
    IF ScopeExits(how)
    THEN [r EXCEPT !.listener = Released(r.listener),
                   !.outcome = NoRequest, !.requests = 0]
    ELSE r

\* line 162: with start_local_server(listen=server_address) as server; the
\* listener may fail to bind
NativeAuthAcquire(acquire_ok) ==
    /\ WritersUnchanged
    /\ DocUnchanged
    /\ PermUnchanged
    /\ pc = "acquire"
    /\ events' = Append(events, "acquire")
    /\ IF acquire_ok
       THEN /\ run' = [run EXCEPT !.listener = "bound"]
            /\ pc' = "prompt"
            /\ UNCHANGED result
       ELSE /\ pc' = "raised"
            /\ result' = Raise("LocalServerError")
            /\ UNCHANGED run
    /\ UNCHANGED <<sections, store, now, last, opts>>

\* a request arrives at the bound listener
ListenerRequest(request) ==
    /\ WritersUnchanged
    /\ DocUnchanged
    /\ PermUnchanged
    /\ run.listener = "bound"
    /\ run.requests < MaxRequests
    /\ run' = [run EXCEPT
                  !.outcome = Capture(run.outcome, request),
                  !.requests = @ + 1,
                  !.first = IF @ = NoRequest /\ request.kind \in {"code", "error"}
                            THEN request ELSE @,
                  !.ignored = IF run.first = NoRequest /\ request.kind = "other"
                              THEN @ + 1 ELSE @]
    /\ UNCHANGED <<sections, store, now, last, pc, opts, events, result>>

\* lines 163 and 166: _prompt_login(url, no_browser); an exception of the
\* browser launch or of the print leaves native_auth, through the with block
\* when the listener is in use
NativeAuthPrompt(prompt_ok) ==
    /\ WritersUnchanged
    /\ DocUnchanged
    /\ PermUnchanged
    /\ pc = "prompt"
    /\ IF prompt_ok
       THEN /\ events' = Append(events, "prompt")
            /\ pc' = IF opts.no_local_server = FALSE THEN "wait" ELSE "input"
            /\ UNCHANGED <<run, result>>
       ELSE /\ events' = Append(events, "prompt")
            /\ pc' = "raised"
            /\ result' = Raise("Exception")
            /\ run' = LeaveScope(run, "exception")
    /\ UNCHANGED <<sections, store, now, last, opts>>

\* a run that takes the error of the redirect for the code
AfterWait_Ignored(outcome) == "exchange"

\* auth_code = server.wait_for_code(): a code goes on to the exchange, the
\* exception of an error redirect leaves native_auth
AfterWait(outcome) == IF outcome.kind = "code" THEN "exchange" ELSE "raised"

\* a wait that gives up on its own, with no redirect
WaitOver_Timeout(r) == TRUE

\* wait_for_code() has no timeout: it ends when the listener holds a redirect
WaitOver(r) == r.outcome # NoRequest

\* line 164: server.wait_for_code() blocks until the listener holds a redirect,
\* then yields its code or raises LocalServerError with its error text; either
\* way the with block is left
NativeAuthWait ==
    /\ WritersUnchanged
    /\ DocUnchanged
    /\ PermUnchanged
    /\ pc = "wait"
    /\ WaitOver(run)
    /\ events' = events \o <<"wait", "release">>
    /\ pc' = AfterWait(run.outcome)
    /\ IF AfterWait(run.outcome) = "exchange"
       THEN /\ run' = [LeaveScope(run, run.outcome.kind) EXCEPT
                          !.auth_code = run.outcome.text]
            /\ UNCHANGED result
       ELSE /\ run' = [LeaveScope(run, run.outcome.kind) EXCEPT
                          !.err_text = run.outcome.text]
            /\ result' = Raise("LocalServerError")
    /\ UNCHANGED <<sections, store, now, last, opts>>

\* lines 167-168: the code is read from the console
NativeAuthInput ==
    /\ WritersUnchanged
    /\ DocUnchanged
    /\ PermUnchanged
    /\ pc = "input"
    /\ events' = Append(events, "input")
    /\ run' = [run EXCEPT !.auth_code = "c1"]
    /\ pc' = "exchange"
    /\ UNCHANGED <<sections, store, now, last, opts, result>>

\* lines 170-171: client.oauth2_exchange_code_for_tokens(auth_code)
NativeAuthExchange(exchange_ok) ==
    /\ WritersUnchanged
    /\ DocUnchanged
    /\ PermUnchanged
    /\ pc = "exchange"
    /\ events' = Append(events, "exchange")
    /\ IF exchange_ok
       THEN /\ \E tokens \in ExchangeSets : run' = [run EXCEPT !.exchanged = tokens]
            /\ pc' = "finish"
            /\ UNCHANGED result
       ELSE /\ pc' = "raised"
            /\ result' = Raise("AuthAPIError")
            /\ UNCHANGED run
    /\ UNCHANGED <<sections, store, now, last, opts>>

\* a save that is made when the option is not True
SaveWanted_Inverted(o) == o.save_tokens # TRUE

\* a save that does not look at the option
SaveWanted_Always(o) == TRUE

\* if opts["save_tokens"] is True
SaveWanted(o) == o.save_tokens = TRUE

\* lines 172-176: save when save_tokens is True, and return the tokens
NativeAuthFinish ==
    /\ WritersUnchanged
    /\ DocUnchanged
    /\ pc = "finish"
    /\ IF SaveWanted(opts)
       THEN /\ store' = [store EXCEPT ![run.section] =
                            save_tokens(run.exchanged, run.section)]
            /\ sections' = sections \cup {run.section}
            /\ events' = Append(events, "save")
            /\ perm' = ConfigSave(perm)
       ELSE UNCHANGED <<sections, store, events, perm>>
    /\ result' = Ok(run.exchanged)
    /\ pc' = "returned"
    /\ UNCHANGED <<now, last, opts, run>>

----------------------------------------------------------------------------
(* tokenstorage/file_adapters.py: SimpleJSONFileAdapter *)

format_version == "1.0"

supported_versions == {"1.0"}

\* globus_sdk.version.__version__ of the SDK that runs the adapter
SDK_VERSION == "v2"

\* a JSON value as the adapter looks at it: a dict or not; its format_version
\* entry ("None" when it has none); its by_rs entry, a dict (kept as the
\* sequence of its values in insertion order), absent, or of another type; its
\* globus-sdk.version entry
NoDoc ==
    [isdict |-> FALSE, format_version |-> "None", by_rs_kind |-> "absent",
     by_rs |-> <<>>, version |-> "None"]

Doc(fv, by_rs, version) ==
    [isdict |-> TRUE, format_version |-> fv, by_rs_kind |-> "dict",
     by_rs |-> by_rs, version |-> version]

\* what is at the filename: nothing, a JSON document, or text that is no JSON
\* (an empty or a partly written file)
MissingFile == [kind |-> "missing", val |-> NoDoc]

JsonFile(val) == [kind |-> "json", val |-> val]

TextFile == [kind |-> "text", val |-> NoDoc]

DocOk(data) == [err |-> "none", data |-> data]

DocRaise(err) == [err |-> err, data |-> NoDoc]

\* open(self.filename), json.load(f), isinstance(val, dict)
raw_load(f) ==
    IF f.kind = "missing" THEN DocRaise("FileNotFoundError")
    ELSE IF f.kind = "text" THEN DocRaise("JSONDecodeError")
    ELSE IF ~f.val.isdict THEN DocRaise("ValueError")
    ELSE DocOk(f.val)

\* a format check that takes any dict
handle_formats_Lenient(read_data) == DocOk(read_data)

handle_formats(read_data) ==
    IF read_data.format_version \notin supported_versions THEN DocRaise("ValueError")
    ELSE IF read_data.by_rs_kind # "dict" THEN DocRaise("ValueError")
    ELSE DocOk(read_data)

\* the skeleton for new data
Skeleton == Doc(format_version, <<>>, SDK_VERSION)

\* a load that lets the missing file's error through
MissingHandled_Never(err) == FALSE

\* except FileNotFoundError
MissingHandled(err) == err = "FileNotFoundError"

\* SimpleJSONFileAdapter._load
adapter_load(f) ==
    LET data == raw_load(f)
    IN  IF data.err = "none" THEN handle_formats(data.data)
        ELSE IF MissingHandled(data.err) THEN DocOk(Skeleton)
        ELSE data

\* to_write["by_rs"].update(token_response.by_resource_server)
RECURSIVE DictUpdate(_, _)
DictUpdate(by_rs, by_resource_server) ==
    IF by_resource_server = <<>> THEN by_rs
    ELSE DictUpdate(DictPut(by_rs, Head(by_resource_server)), Tail(by_resource_server))

\* by_rs.get(resource_server): the record, or None
DictGet(by_rs, resource_server) ==
    IF \E i \in DOMAIN by_rs : by_rs[i].resource_server = PyStr(resource_server)
    THEN [found |-> TRUE,
          record |-> <<by_rs[CHOOSE i \in DOMAIN by_rs :
                              by_rs[i].resource_server = PyStr(resource_server)]>>]
    ELSE [found |-> FALSE, record |-> <<>>]

\* the token responses handed to store()
ResponseSets ==
    {<<OldTok(RS_AB, 1)>>, <<OldTok(RS_AB, MaxTime)>>, <<OldTok(RS_C, MaxTime)>>,
     <<OldTok(RS_AB, MaxTime), OldTok(RS_C, 1)>>}

\* what another program, or another version of the SDK, may have left at the
\* filename
ForeignFiles ==
    {TextFile,
     JsonFile(NoDoc),
     JsonFile(Doc("2.0", <<OldTok(RS_AB, 1)>>, "v3")),
     JsonFile(Doc("None", <<OldTok(RS_AB, 1)>>, "v1")),
     JsonFile([Doc(format_version, <<>>, "v1") EXCEPT !.by_rs_kind = "absent"]),
     JsonFile([Doc(format_version, <<>>, "v1") EXCEPT !.by_rs_kind = "list"]),
     JsonFile(Doc(format_version, <<OldTok(RS_C, 1)>>, "v1"))}

NoStore == [writing |-> FALSE, to_write |-> NoDoc]

NoDocCall ==
    [op |-> "none", err |-> "none", by_rs |-> <<>>, found |-> FALSE,
     before |-> MissingFile, response |-> <<>>]

\* a store that writes the token response in place of the stored mapping
store_update_Overwrite(to_write, by_resource_server) ==
    [to_write EXCEPT !.by_rs = by_resource_server]

\* line 97: to_write["by_rs"].update(token_response.by_resource_server)
store_update(to_write, by_resource_server) ==
    [to_write EXCEPT !.by_rs = DictUpdate(@, by_resource_server)]

\* store(), lines 88-101: load, merge, and open(self.filename, "w"), which
\* leaves an empty file until json.dump has written
DocStoreBegin(by_resource_server) ==
    /\ WritersUnchanged
    /\ ~adapter.writing
    /\ LET to_write == adapter_load(file)
       IN  IF to_write.err # "none"
           THEN /\ dlast' = [NoDocCall EXCEPT !.op = "store", !.err = to_write.err,
                                              !.before = file,
                                              !.response = by_resource_server]
                /\ UNCHANGED <<file, adapter, perm>>
           ELSE /\ adapter' = [writing |-> TRUE,
                               to_write |->
                                   store_update(to_write.data, by_resource_server)]
                /\ file' = TextFile
                /\ perm' = DocOpen(perm)
                /\ dlast' = [NoDocCall EXCEPT !.op = "storing", !.before = file,
                                              !.response = by_resource_server]
    /\ ConfigUnchanged

\* store(), line 102: json.dump(to_write, f)
DocStoreDump ==
    /\ WritersUnchanged
    /\ adapter.writing
    /\ file' = JsonFile(adapter.to_write)
    /\ adapter' = NoStore
    /\ dlast' = [dlast EXCEPT !.op = "store", !.by_rs = adapter.to_write.by_rs]
    /\ ConfigUnchanged
    /\ PermUnchanged

\* the process is stopped between the open and the end of the write
DocStoreInterrupt ==
    /\ WritersUnchanged
    /\ adapter.writing
    /\ adapter' = NoStore
    /\ dlast' = [dlast EXCEPT !.op = "store", !.err = "Interrupted"]
    /\ UNCHANGED file
    /\ ConfigUnchanged
    /\ PermUnchanged

\* get_by_resource_server(), lines 104-115
DocGetByResourceServer ==
    /\ WritersUnchanged
    /\ ~adapter.writing
    /\ LET data == adapter_load(file)
       IN  dlast' = [NoDocCall EXCEPT !.op = "get_by_resource_server",
                                      !.err = data.err, !.by_rs = data.data.by_rs,
                                      !.before = file]
    /\ UNCHANGED <<file, adapter>>
    /\ ConfigUnchanged
    /\ PermUnchanged

\* get_token_data(resource_server), lines 117-118
DocGetTokenData(resource_server) ==
    /\ WritersUnchanged
    /\ ~adapter.writing
    /\ LET data == adapter_load(file)
           got == DictGet(data.data.by_rs, resource_server)
       IN  dlast' = [NoDocCall EXCEPT !.op = "get_token_data",
                                      !.err = data.err, !.by_rs = got.record,
                                      !.found = got.found, !.before = file]
    /\ UNCHANGED <<file, adapter>>
    /\ ConfigUnchanged
    /\ PermUnchanged

\* the file is replaced from outside the adapter, by a program that runs with
\* the usual umask
DocForeignWrite(f) ==
    /\ WritersUnchanged
    /\ ~adapter.writing
    /\ file # f
    /\ file' = f
    /\ perm' = [perm EXCEPT !.doc = OpenForWrite(@, UMASK_022),
                            !.wrote = @ \ {"doc"}]
    /\ UNCHANGED <<adapter, dlast>>
    /\ ConfigUnchanged

\* the file is removed from outside the adapter
DocRemove ==
    /\ WritersUnchanged
    /\ ~adapter.writing
    /\ file.kind # "missing"
    /\ file' = MissingFile
    /\ perm' = [perm EXCEPT !.doc = NoFile, !.wrote = @ \ {"doc"}]
    /\ UNCHANGED <<adapter, dlast>>
    /\ ConfigUnchanged

----------------------------------------------------------------------------
(* The two stores driven by one caller *)

\* the token sets the caller saves to both stores
BackendSets ==
    {<<OldTok(RS_AB, MaxTime)>>, <<OldTok(RS_C, MaxTime)>>,
     <<OldTok(RS_AB, MaxTime), OldTok(RS_C, 1)>>}

\* save_tokens(tokens, config_section) and adapter.store(response) with the
\* same token sets, the store() running to its end
BackendsSave(tokens, config_section) ==
    /\ WritersUnchanged
    /\ Idle
    /\ ~adapter.writing
    /\ store' = [store EXCEPT ![config_section] = save_tokens(tokens, config_section)]
    /\ sections' = sections \cup {config_section}
    /\ last' = [NoCall EXCEPT !.op = "save", !.section = config_section,
                              !.tokens = tokens]
    /\ LET to_write == adapter_load(file)
       IN  IF to_write.err # "none"
           THEN /\ dlast' = [NoDocCall EXCEPT !.op = "store", !.err = to_write.err,
                                              !.before = file, !.response = tokens]
                /\ perm' = ConfigSave(perm)
                /\ UNCHANGED file
           ELSE /\ file' = JsonFile(store_update(to_write.data, tokens))
                /\ dlast' = [NoDocCall EXCEPT
                                !.op = "store", !.before = file, !.response = tokens,
                                !.by_rs = store_update(to_write.data, tokens).by_rs]
                /\ perm' = DocOpen(ConfigSave(perm))
    /\ UNCHANGED <<now, adapter>>
    /\ NativeUnchanged

\* load_tokens(config_section, requested_scopes, check_expired) and
\* adapter.get_by_resource_server()
BackendsLoad(config_section, requested_scopes, check_expired) ==
    /\ WritersUnchanged
    /\ Idle
    /\ ~adapter.writing
    /\ LET r == load_tokens(config_section, requested_scopes, check_expired)
       IN  last' = [NoCall EXCEPT !.op = "load", !.section = config_section,
                                  !.req = requested_scopes, !.chk = check_expired,
                                  !.err = r.err, !.tokens = r.tokens]
    /\ LET data == adapter_load(file)
       IN  dlast' = [NoDocCall EXCEPT !.op = "get_by_resource_server",
                                      !.err = data.err, !.by_rs = data.data.by_rs,
                                      !.before = file]
    /\ UNCHANGED <<sections, store, now, file, adapter, perm>>
    /\ NativeUnchanged

----------------------------------------------------------------------------
(* Two writers on one section and one document *)

Writers == {1, 2}

Other(w) == 3 - w

\* a second record of the resource server of OldTok(RS_AB, e), every field of
\* which that can differ does
OtherTok(rs, e) == Tok(rs, SC_YZ, <<"n">>, PyStr(<<"r">>), PyStr(<<"M">>), e)

\* the token sets the writers save
WriterSets ==
    {<<OldTok(RS_AB, 1)>>, <<OtherTok(RS_AB, MaxTime)>>, <<OldTok(RS_C, MaxTime)>>}

\* a process that has not called yet: job is "kv" for save_tokens and "doc" for
\* store(); state is "none", "run" or "done"; todo are the keys save_tokens has
\* still to set; have says that the read of the current step is done, cfg and
\* to_write hold what was read
NoWriter ==
    [job |-> "none", state |-> "none", tokens |-> <<>>, todo |-> <<>>, have |-> FALSE,
     cfg |-> [sections |-> {}, store |-> [s \in SectionNames |-> EmptyItems]],
     to_write |-> NoDoc, err |-> "none"]

NoWriters == [proc |-> [w \in Writers |-> NoWriter], overlapped |-> FALSE]

\* the keys of cfg_tokens.items() in the order save_tokens sets them: the
\* fields of each token set, then the index key
RECURSIVE KeyOrder(_)
KeyOrder(tokens) ==
    IF tokens = <<>> THEN <<CONFIG_TOKEN_GROUPS>>
    ELSE [i \in DOMAIN TOKEN_KEYS |->
             serialize_token(Head(tokens).resource_server.s, KeyChars[TOKEN_KEYS[i]])]
         \o KeyOrder(Tail(tokens))

\* a _get_write_config that starts from an empty config whatever is on disk
get_write_config_Empty(disk_sections, disk_store) ==
    [sections |-> {}, store |-> [s \in SectionNames |-> EmptyItems]]

\* config.py _get_write_config, lines 168-174: a fresh ConfigParser that has
\* read the file as it is now
get_write_config(disk_sections, disk_store) ==
    [sections |-> disk_sections, store |-> disk_store]

\* a process calls save_tokens(tokens, config_section) or store(response)
WriterStart(w, job, tokens) ==
    /\ Idle
    /\ ~adapter.writing
    /\ writers.proc[w].state = "none"
    /\ writers' =
          [proc |-> [writers.proc EXCEPT ![w] =
                        [NoWriter EXCEPT !.job = job, !.state = "run",
                                         !.tokens = tokens,
                                         !.todo = IF job = "kv" THEN KeyOrder(tokens)
                                                  ELSE <<>>]],
           overlapped |-> \/ writers.overlapped
                          \/ /\ writers.proc[Other(w)].state = "run"
                             /\ writers.proc[Other(w)].job = job]
    /\ UNCHANGED <<sections, store, now, last, file, adapter, dlast, perm>>
    /\ NativeUnchanged

\* config.set, lines 194-200: cfg = self._get_write_config()
WriterGetConfig(w) ==
    /\ writers.proc[w].state = "run"
    /\ writers.proc[w].job = "kv"
    /\ ~writers.proc[w].have
    /\ writers' = [writers EXCEPT !.proc[w].have = TRUE,
                                  !.proc[w].cfg = get_write_config(sections, store)]
    /\ UNCHANGED <<sections, store, now, last, file, adapter, dlast, perm>>
    /\ NativeUnchanged

\* config.set, lines 197-201: the section is added if absent, the option is set
\* in cfg, and _save writes cfg over the file
WriterSaveConfig(w, config_section) ==
    /\ writers.proc[w].state = "run"
    /\ writers.proc[w].job = "kv"
    /\ writers.proc[w].have
    /\ LET me == writers.proc[w]
           key == Head(me.todo)
       IN  /\ store' = [me.cfg.store EXCEPT ![config_section] =
                           SetItem(@, key, serialize_token_groups(me.tokens)[key])]
           /\ sections' = me.cfg.sections \cup {config_section}
           /\ writers' = [writers EXCEPT
                             !.proc[w].have = FALSE,
                             !.proc[w].todo = Tail(me.todo),
                             !.proc[w].state = IF Tail(me.todo) = <<>> THEN "done"
                                               ELSE "run"]
    /\ perm' = ConfigSave(perm)
    /\ UNCHANGED <<now, last, file, adapter, dlast>>
    /\ NativeUnchanged

\* store(), lines 88-97: to_write = self._load() and the update of by_rs; a
\* load that raises ends the store
WriterLoadDoc(w) ==
    /\ writers.proc[w].state = "run"
    /\ writers.proc[w].job = "doc"
    /\ ~writers.proc[w].have
    /\ LET to_write == adapter_load(file)
       IN  writers' =
             IF to_write.err # "none"
             THEN [writers EXCEPT !.proc[w].state = "done",
                                  !.proc[w].err = to_write.err]
             ELSE [writers EXCEPT
                      !.proc[w].have = TRUE,
                      !.proc[w].to_write =
                          store_update(to_write.data, writers.proc[w].tokens)]
    /\ UNCHANGED <<sections, store, now, last, file, adapter, dlast, perm>>
    /\ NativeUnchanged

\* store(), lines 100-102: the file is opened and to_write is dumped into it
WriterDumpDoc(w) ==
    /\ writers.proc[w].state = "run"
    /\ writers.proc[w].job = "doc"
    /\ writers.proc[w].have
    /\ file' = JsonFile(writers.proc[w].to_write)
    /\ perm' = DocOpen(perm)
    /\ writers' = [writers EXCEPT !.proc[w].have = FALSE, !.proc[w].state = "done"]
    /\ UNCHANGED <<sections, store, now, last, adapter, dlast>>
    /\ NativeUnchanged

----------------------------------------------------------------------------
(* Specifications *)

Init ==
    /\ sections = {}
    /\ store = [s \in SectionNames |-> EmptyItems]
    /\ now = 1
    /\ last = NoCall
    /\ pc = "idle"
    /\ opts = NATIVE_AUTH_DEFAULTS
    /\ events = <<>>
    /\ run = NoRun
    /\ result = Ok(<<>>)
    /\ file = MissingFile
    /\ adapter = NoStore
    /\ dlast = NoDocCall
    /\ perm = [umask |-> UMASK_022, cfg |-> NoFile, doc |-> NoFile, wrote |-> {}]
    /\ writers = NoWriters

\* runs of native_auth over a store seeded through save_tokens and config.remove
Next ==
    \/ \E kwargs \in KwargsChoices : NativeAuthCall(kwargs)
    \/ NativeAuthLoad
    \/ NativeAuthClear
    \/ NativeAuthStartFlow
    \/ \E acquire_ok \in BOOLEAN : NativeAuthAcquire(acquire_ok)
    \/ \E request \in RedirectChoices : ListenerRequest(request)
    \/ \E prompt_ok \in BOOLEAN : NativeAuthPrompt(prompt_ok)
    \/ NativeAuthWait
    \/ NativeAuthInput
    \/ \E exchange_ok \in BOOLEAN : NativeAuthExchange(exchange_ok)
    \/ NativeAuthFinish
    \/ NativeAuthDone
    \/ \E tokens \in SeedSets : SaveTokens(tokens, "cid")
    \/ ConfigRemove(RS_AB, "cid")
    \/ Tick

Spec == Init /\ [][Next]_vars

\* the token storage API alone, on one section, over every token set of the bounds
NextStorage ==
    \/ \E tokens \in TokenSets \cup {<<>>} : SaveTokens(tokens, "cid")
    \/ \E requested_scopes \in RequestedChoices, check_expired \in BOOLEAN :
          LoadTokens("cid", requested_scopes, check_expired)
    \/ ClearTokens("cid")
    \/ \E rs \in RSNames : ConfigRemove(rs, "cid")
    \/ Tick

SpecStorage == Init /\ [][NextStorage]_vars

\* the file adapter alone, on one file
NextDocument ==
    \/ \E by_resource_server \in ResponseSets : DocStoreBegin(by_resource_server)
    \/ DocStoreDump
    \/ DocStoreInterrupt
    \/ DocGetByResourceServer
    \/ \E resource_server \in RSNames : DocGetTokenData(resource_server)
    \/ \E f \in ForeignFiles : DocForeignWrite(f)
    \/ DocRemove

SpecDocument == Init /\ [][NextDocument]_vars

\* both backends over files that may have been made by other programs
NextPermissions ==
    \/ \E tokens \in SeedSets : SaveTokens(tokens, "cid")
    \/ ClearTokens("cid")
    \/ ConfigRemove(RS_AB, "cid")
    \/ ConfigFileOutside
    \/ \E by_resource_server \in ResponseSets : DocStoreBegin(by_resource_server)
    \/ DocStoreDump
    \/ \E f \in ForeignFiles : DocForeignWrite(f)
    \/ DocRemove

SpecPermissions == Init /\ [][NextPermissions]_vars

\* runs of native_auth with and without the listener, over an empty store
ListenerKwargs ==
    {NoKwargs, "save_tokens" :> TRUE, "force_login" :> TRUE, "no_local_server" :> TRUE}

NextListener ==
    \/ \E kwargs \in ListenerKwargs : NativeAuthCall(kwargs)
    \/ NativeAuthLoad
    \/ NativeAuthClear
    \/ NativeAuthStartFlow
    \/ \E acquire_ok \in BOOLEAN : NativeAuthAcquire(acquire_ok)
    \/ \E request \in RedirectChoices : ListenerRequest(request)
    \/ \E prompt_ok \in BOOLEAN : NativeAuthPrompt(prompt_ok)
    \/ NativeAuthWait
    \/ NativeAuthInput
    \/ \E exchange_ok \in BOOLEAN : NativeAuthExchange(exchange_ok)
    \/ NativeAuthFinish
    \/ NativeAuthDone
    \/ Tick

\* native_auth is sequential code: once the wait can end it does, and the
\* exchange and the save that follow it run to their end. Nothing makes a
\* request arrive at the listener, or the user type a code.
SpecListener ==
    /\ Init
    /\ [][NextListener]_vars
    /\ WF_vars(NativeAuthWait)
    /\ WF_vars(\E exchange_ok \in BOOLEAN : NativeAuthExchange(exchange_ok))
    /\ WF_vars(NativeAuthFinish)

\* two processes, each saving one token set to the section or to the document
NextWriters ==
    \/ \E w \in Writers, job \in {"kv", "doc"}, tokens \in WriterSets :
          WriterStart(w, job, tokens)
    \/ \E w \in Writers : WriterGetConfig(w)
    \/ \E w \in Writers : WriterSaveConfig(w, "cid")
    \/ \E w \in Writers : WriterLoadDoc(w)
    \/ \E w \in Writers : WriterDumpDoc(w)

SpecWriters == Init /\ [][NextWriters]_vars

\* the steps native_auth takes by itself after the clear: every step but the
\* typing of the code and the arrival of a request
RunStep ==
    \/ NativeAuthLoad
    \/ NativeAuthStartFlow
    \/ \E acquire_ok \in BOOLEAN : NativeAuthAcquire(acquire_ok)
    \/ \E prompt_ok \in BOOLEAN : NativeAuthPrompt(prompt_ok)
    \/ NativeAuthWait
    \/ \E exchange_ok \in BOOLEAN : NativeAuthExchange(exchange_ok)
    \/ NativeAuthFinish

\* the call of clear_tokens returns or raises: weak fairness of NativeAuthClear,
\* which can be taken exactly when pc = "clear" (RevokeChoices always holds 0)
\* and always changes events
ClearReturns == []<>(pc # "clear") \/ []<><<NativeAuthClear>>_vars

\* the runs of SpecListener, with every step of native_auth's own taken when
\* it can be: the code is sequential and each call it makes returns or raises
SpecSteps == Init /\ [][NextListener]_vars /\ WF_vars(RunStep) /\ ClearReturns

\* one caller that saves to and loads from both stores
NextBackends ==
    \/ \E tokens \in BackendSets : BackendsSave(tokens, "cid")
    \/ \E requested_scopes \in RequestedChoices, check_expired \in BOOLEAN :
          BackendsLoad("cid", requested_scopes, check_expired)
    \/ Tick

SpecBackends == Init /\ [][NextBackends]_vars

----------------------------------------------------------------------------
(* Properties of native_auth, under Spec *)

\* a run of native_auth is under way or has just ended
InRun == pc # "idle" /\ run.section # ""

\* the stored tokens of the run's partition were loaded and accepted
LoadedFromStore == Did("load") /\ run.load_err = "none"

\* the stored tokens of the run's partition were loaded and refused
LoadFailed == Did("load") /\ run.load_err # "none"

Count(e) == Cardinality({i \in DOMAIN events : events[i] = e})

\* C1: when force_login is false and the stored tokens load and validate,
\* native_auth returns exactly the stored set, and the run does nothing else:
\* no clear, no revoke, no client, no listener, no exchange, no save, and the
\* partition is as it was.
C1_CachedTokensReturned ==
    (InRun /\ LoadedFromStore) =>
        /\ opts.force_login = FALSE
        /\ pc = "returned"
        /\ events = <<"load">>
        /\ result.err = "none"
        /\ result.tokens = deserialize_token_groups(get_section(run.section)).tokens
        /\ result.tokens # <<>>
        /\ run.revoked = <<>>
        /\ run.listener = "none"
        /\ run.exchanged = <<>>
        /\ store[run.section] = run.before
        /\ run.had /\ run.section \in sections

C1_Witness ==
    /\ pc = "returned"
    /\ LoadedFromStore
    /\ result.tokens = <<OldTok(RS_AB, MaxTime)>>

\* C2: a call with a keyword that is no option raises ValueError before the run
\* does anything, whatever the text of the keyword.
C2_UnknownOptionRejected ==
    (pc # "idle" /\ run.unaccepted # {}) =>
        /\ pc = "raised"
        /\ result.err = "ValueError"
        /\ events = <<>>
        /\ run.revoked = <<>>

\* C3: a failure of the load of the stored tokens (no section, malformed store,
\* scope mismatch, expired) never is what native_auth raises; the run goes on to
\* the clear and the fresh flow, and when it returns it has created the client,
\* exchanged the code and returns the exchanged set.
C3_LoadFailureStartsFlow ==
    /\ (pc = "raised" => ~IsConfigError(result.err))
    /\ (InRun /\ LoadFailed) =>
          /\ events[1] = "load"
          /\ IF Len(events) = 1 THEN pc = "clear" ELSE events[2] = "clear"
          /\ pc = "returned" =>
                /\ Did("client") /\ Did("exchange")
                /\ result = Ok(run.exchanged)

C3_Witness ==
    /\ pc = "returned"
    /\ LoadFailed
    /\ run.load_err = "LoadedTokensExpired"
    /\ Did("client") /\ Did("exchange")

\* C4: whenever the load of the stored tokens fails, for whatever reason, the
\* clear comes before the authorization request and removes the stale entries,
\* so that after the run's save the partition holds only entries of the new set.
C4_StaleEntriesCleared ==
    (InRun /\ LoadFailed) =>
        /\ Did("client") => (Len(events) >= 2 /\ events[2] = "clear")
        /\ (pc = "returned" /\ Did("save")) =>
              DOMAIN store[run.section] = DOMAIN serialize_token_groups(run.exchanged)

\* C5: a fresh flow over a partition that holds nothing returns exactly the
\* exchanged set; the partition stays as it was unless save_tokens is True, and
\* then there is exactly one save, of that set, after the exchange.
C5_FreshFlowResult ==
    (InRun /\ run.before = EmptyItems) =>
        /\ ~Did("save") =>
              /\ store[run.section] = EmptyItems
              /\ (run.section \in sections) = run.had
        /\ pc = "returned" =>
              /\ Did("exchange")
              /\ result = Ok(run.exchanged)
              /\ result.tokens # <<>>
              /\ Did("save") = (opts.save_tokens = TRUE)
        /\ Did("save") =>
              /\ pc = "returned"
              /\ Count("save") = 1
              /\ events[Len(events)] = "save"
              /\ events[Len(events) - 1] = "exchange"
              /\ store[run.section] = serialize_token_groups(run.exchanged)
              /\ run.section = ConfigSection(opts)

C5_Witness ==
    /\ pc = "returned"
    /\ run.before = EmptyItems
    /\ Did("save")
    /\ run.section = "sec"
    /\ store["sec"] = serialize_token_groups(<<NewTok(RS_C)>>)

----------------------------------------------------------------------------
(* Properties of the token storage, under SpecStorage *)

\* a credential set as the data model has it: at least one record, the records
\* of distinct resource servers, the four required fields present, the two
\* optional ones present or None
WellFormed(tokens) ==
    /\ tokens # <<>>
    /\ \A i \in DOMAIN tokens :
          /\ \A k \in {"scope", "access_token", "resource_server"} :
                tokens[i][k].t = "str" /\ tokens[i][k].s # <<>>
          /\ tokens[i].expires_at_seconds.t = "int"
          /\ \A k \in {"refresh_token", "token_type"} :
                tokens[i][k] = PyNone \/ (tokens[i][k].t = "str" /\ tokens[i][k].s # <<>>)
    /\ \A i, j \in DOMAIN tokens :
          tokens[i].resource_server = tokens[j].resource_server => i = j

\* what a section holds, read back record by record
Stored(section) == deserialize_token_groups(get_section(section))

\* the section reads back, and every record has its four required fields
StoredWellFormed(section) ==
    /\ ~Stored(section).raised
    /\ \A i \in DOMAIN Stored(section).tokens :
          \A k \in Range(REQUIRED_KEYS) : Truthy(Stored(section).tokens[i][k])

\* the scope names of the stored records
StoredScopes(section) ==
    UNION {Range(SplitBlank(Stored(section).tokens[i].scope.s, <<>>)) :
              i \in DOMAIN Stored(section).tokens}

IterChoices == {r \in RequestedChoices : ~r.isStr}

\* C6: save_tokens of a well-formed set followed by load_tokens of the section,
\* without requested scopes and without the expiry test, gives back the same
\* resource servers with equal records, None staying None.
C6_RoundTrip ==
    (last.op = "save" /\ WellFormed(last.tokens)) =>
        LET r == load_tokens(last.section, NoScopes, FALSE)
        IN  /\ r.err = "none"
            /\ Len(r.tokens) = Len(last.tokens)
            /\ Range(r.tokens) = Range(last.tokens)

IndexedGroups(section) == Range(SplitOn(store[section][CONFIG_TOKEN_GROUPS], ",", <<>>))

\* the section has no entry for a required field of an indexed record
LacksRequired(section) ==
    \E group \in IndexedGroups(section), k \in Range(REQUIRED_KEYS) :
        deserialize_token(group, KeyChars[k]) \notin DOMAIN store[section]

\* C9: load_tokens raises ConfigError when the section is absent, when the
\* token_groups entry is absent, and when an indexed record lacks scope,
\* access_token, expires_at_seconds or resource_server; it never returns a
\* record without one of these.
C9_MalformedStoreRejected ==
    \A section \in SectionNames, req \in RequestedChoices, chk \in BOOLEAN :
        LET r == load_tokens(section, req, chk)
        IN  /\ ( \/ section \notin sections
                 \/ CONFIG_TOKEN_GROUPS \notin DOMAIN store[section]
                 \/ LacksRequired(section) ) => r = Raise("ConfigError")
            /\ r.err = "none" =>
                  /\ r.tokens # <<>>
                  /\ \A i \in DOMAIN r.tokens, k \in Range(REQUIRED_KEYS) :
                        Truthy(r.tokens[i][k])

C9_Witness ==
    /\ last.op = "load" /\ last.err = "ConfigError"
    /\ last.section \in sections
    /\ CONFIG_TOKEN_GROUPS \in DOMAIN store[last.section]
    /\ serialize_token(RS_AB, KeyChars.scope) \in DOMAIN store[last.section]
    /\ serialize_token(RS_AB, KeyChars.access_token) \notin DOMAIN store[last.section]

\* a clear_tokens call that finds nothing: False, no exception, no revoke call,
\* the section as it is
NothingToClear(section, revoke_fails_at) ==
    clear_tokens(section, revoke_fails_at) =
        [ret |-> FALSE, err |-> "none", revoked |-> <<>>, items |-> store[section]]

\* C10: clear_tokens on a section that was never written, or that a previous
\* clear_tokens has cleared, returns False, raises nothing, revokes nothing and
\* changes nothing, however often it is repeated.
C10_ClearIdempotent ==
    /\ \A section \in SectionNames, f \in 0..1 :
          store[section] = EmptyItems => NothingToClear(section, f)
    /\ (last.op = "clear" /\ last.err = "none") =>
          \A f \in 0..1 : NothingToClear(last.section, f)
    /\ (last.op = "clear" /\ last.before = EmptyItems) =>
          /\ last.ret = FALSE /\ last.err = "none" /\ last.revoked = <<>>
          /\ store[last.section] = EmptyItems
          /\ (last.section \in sections) = last.had

C10_Witness ==
    /\ last.op = "clear" /\ last.ret = FALSE /\ last.err = "none"
    /\ last.had
    /\ last.before = EmptyItems

\* the access tokens of the records a section holds, in stored order
StoredAccessTokens(items) ==
    [i \in DOMAIN deserialize_token_groups([none |-> FALSE, items |-> items]).tokens |->
        deserialize_token_groups([none |-> FALSE, items |-> items]).tokens[i].access_token.s]

\* the section held exactly what save_tokens writes for a well-formed set
HeldSavedSet(items) ==
    \E tokens \in TokenSets : WellFormed(tokens) /\ items = serialize_token_groups(tokens)

\* C11: clear_tokens on a section that holds what save_tokens wrote for a
\* well-formed set (live, expired or mixed), with every revoke call succeeding,
\* returns True and leaves the section without any entry.
C11_ClearDeletesSavedSet ==
    (last.op = "clear" /\ last.fails = 0 /\ HeldSavedSet(last.before)) =>
        /\ last.err = "none"
        /\ last.ret = TRUE
        /\ store[last.section] = EmptyItems

\* C12 as claimed: when a revoke call of clear_tokens fails, nothing is raised
\* to the caller and every stored key of the section is still deleted.
C12_RevokeBestEffort ==
    (last.op = "clear" /\ last.fails # 0) =>
        /\ last.err = "none"
        /\ store[last.section] = EmptyItems

\* C12 as amended: when a revoke call of clear_tokens fails, the failure is
\* raised to the caller and nothing is deleted: the section is as it was, and
\* the revoke calls made are those up to the failing one.
C12_RevokeFailureRaised ==
    (last.op = "clear" /\ last.fails # 0) =>
        /\ last.err = "AuthAPIError"
        /\ last.ret = FALSE
        /\ store[last.section] = last.before
        /\ last.before # EmptyItems
        /\ last.revoked = SubSeq(StoredAccessTokens(last.before), 1, last.fails)

C12_Witness ==
    /\ last.op = "clear" /\ last.fails = 2
    /\ last.err = "AuthAPIError"
    /\ last.revoked = << <<"t", "1">>, <<"t", "3">> >>
    /\ store[last.section] = last.before

\* C13: whenever clear_tokens deletes a stored set, it has made one revoke call
\* for the access token of every record of that set, expired records and live
\* records next to an expired one included.
C13_EveryRecordRevoked ==
    (last.op = "clear" /\ last.ret = TRUE) =>
        last.revoked = StoredAccessTokens(last.before)

\* C14: clear_tokens never raises LoadedTokensExpired, whatever the section
\* holds; that error comes only out of load_tokens called with the expiry test.
C14_ClearNeverRaisesExpired ==
    /\ \A section \in SectionNames, f \in 0..2 :
          clear_tokens(section, f).err # "LoadedTokensExpired"
    /\ last.op = "clear" => last.err # "LoadedTokensExpired"
    /\ last.err = "LoadedTokensExpired" => (last.op = "load" /\ last.chk)
    /\ \A section \in SectionNames, req \in RequestedChoices :
          load_tokens(section, req, FALSE).err # "LoadedTokensExpired"

C14_Witness ==
    /\ last.op = "clear" /\ last.err = "none" /\ last.ret = TRUE
    /\ last.revoked = <<>>
    /\ Len(StoredAccessTokens(last.before)) = 2
    /\ store[last.section] = EmptyItems

----------------------------------------------------------------------------
(* Further properties of native_auth, under Spec *)

\* the entries that save_tokens wrote for a set
EntriesOf(tokens) == DOMAIN serialize_token_groups(tokens)

\* C15: with force_login true a run never loads the stored tokens: its first
\* step is the clear; once it is past the clear, stored tokens that were valid
\* at the call are gone from the partition; when it returns it has made the
\* authorization request and the exchange, and returns the exchanged set.
C15_ForceLoginSkipsLoad ==
    (InRun /\ opts.force_login = TRUE) =>
        /\ ~Did("load")
        /\ run.load_err = "none"
        /\ IF events = <<>> THEN pc = "clear" ELSE events[1] = "clear"
        /\ (Did("client") /\ ~Did("save") /\ run.cached # <<>>) =>
              DOMAIN store[run.section] \cap EntriesOf(run.cached) = {}
        /\ pc = "returned" =>
              /\ Did("client") /\ Did("exchange")
              /\ run.exchanged # <<>>
              /\ result = Ok(run.exchanged)

C15_Witness ==
    /\ pc = "returned"
    /\ opts.force_login = TRUE
    /\ run.cached = <<OldTok(RS_AB, MaxTime)>>
    /\ run.revoked = << <<"t", "1">> >>
    /\ store[run.section] = EmptyItems
    /\ result = Ok(run.exchanged)

\* the wait of the run's listener has ended
WaitEnded == Did("wait")

\* C16: when the listener's wait ends with the error of the redirect,
\* native_auth raises that failure and the run makes no exchange and no save.
C16_ListenerErrorPropagates ==
    (InRun /\ WaitEnded /\ run.first.kind = "error") =>
        /\ pc = "raised"
        /\ result = Raise("LocalServerError")
        /\ ~Did("exchange") /\ ~Did("save")
        /\ run.exchanged = <<>>
        /\ run.auth_code = ""
        /\ events[Len(events)] = "release"

C16_Witness ==
    /\ pc = "raised"
    /\ WaitEnded
    /\ run.first = [kind |-> "error", text |-> "e1"]
    /\ result = Raise("LocalServerError")
    /\ opts.save_tokens = TRUE
    /\ store[run.section] = EmptyItems

\* C17: the listener yields the outcome of the first well-formed redirect only:
\* a code is what wait_for_code returns, unchanged; an error makes it raise
\* LocalServerError with the error's text; requests that come after the first
\* redirect change nothing.
C17_FirstRedirectWins ==
    /\ (InRun /\ run.listener = "bound" /\ run.first # NoRequest) =>
          run.outcome = run.first
    /\ (InRun /\ WaitEnded) =>
          /\ run.first.kind \in {"code", "error"}
          /\ run.first.kind = "code" =>
                /\ run.auth_code = run.first.text
                /\ run.err_text = ""
                /\ result.err # "LocalServerError"
          /\ run.first.kind = "error" =>
                /\ result = Raise("LocalServerError")
                /\ run.err_text = run.first.text
                /\ run.auth_code = ""

C17_Witness ==
    /\ run.listener = "bound"
    /\ run.requests = 2
    /\ run.ignored = 0
    /\ run.first = [kind |-> "code", text |-> "c2"]
    /\ run.outcome = run.first

\* C18: a request without code and without error does not end the wait: as
\* long as no redirect has come, however many such requests have, the listener
\* holds no result and the wait has not returned; a redirect that comes after
\* them is what the wait delivers.
C18_OtherRequestsIgnored ==
    /\ (InRun /\ run.listener = "bound" /\ run.first = NoRequest) =>
          /\ run.outcome = NoRequest
          /\ ~WaitEnded
          /\ pc \in {"prompt", "wait"}
          /\ result.err = "none"
    /\ (InRun /\ WaitEnded /\ run.ignored > 0) =>
          /\ run.first # NoRequest
          /\ IF run.first.kind = "code"
             THEN run.auth_code = run.first.text /\ result.err # "LocalServerError"
             ELSE run.err_text = run.first.text /\ result = Raise("LocalServerError")

C18_Witness ==
    /\ WaitEnded
    /\ run.ignored = 1
    /\ run.auth_code = "c2"
    /\ pc = "returned"

\* C19: the listener is released on every way out of its scope: when the wait
\* returns a code, when it raises, and when the block is left by another
\* exception; a run that is past the block, has returned or has raised has no
\* bound listener.
C19_ListenerReleased ==
    InRun =>
        /\ run.listener = "bound" => pc \in {"prompt", "wait"}
        /\ pc \in {"exchange", "finish", "returned", "raised"} =>
              run.listener # "bound"
        /\ Did("acquire") /\ pc \in {"exchange", "finish", "returned"} =>
              run.listener = "released"
        /\ run.listener = "none" => ~WaitEnded

C19_Witness ==
    /\ pc = "raised"
    /\ result = Raise("Exception")
    /\ run.listener = "released"
    /\ run.requests = 0
    /\ ~WaitEnded

----------------------------------------------------------------------------
(* Properties of the file adapter, under SpecDocument *)

\* the calls that only read the file
DocReads == {"get_by_resource_server", "get_token_data"}

\* C20: when the file does not exist, the adapter's load gives an envelope with
\* an empty by_rs mapping and format_version "1.0" and raises nothing; a read
\* through get_by_resource_server or get_token_data then returns the empty
\* mapping, or None, and leaves the file missing.
C20_MissingFileLoadsEmpty ==
    [][ /\ file.kind = "missing" =>
              /\ adapter_load(file).err = "none"
              /\ adapter_load(file).data.isdict
              /\ adapter_load(file).data.by_rs_kind = "dict"
              /\ adapter_load(file).data.by_rs = <<>>
              /\ adapter_load(file).data.format_version = "1.0"
        /\ (file.kind = "missing" /\ dlast' # dlast /\ dlast'.op \in DocReads) =>
              /\ dlast'.err = "none"
              /\ dlast'.by_rs = <<>>
              /\ ~dlast'.found
              /\ file' = file
              /\ adapter' = adapter ]_vars

C20_Witness ==
    /\ dlast.op = "get_token_data"
    /\ dlast.before = MissingFile
    /\ dlast.err = "none" /\ ~dlast.found /\ dlast.by_rs = <<>>
    /\ file = MissingFile

\* an existing document that the format check must refuse: its format_version is
\* not a supported one, or its by_rs entry is missing or no mapping
BadDocument(f) ==
    /\ f.kind = "json" /\ f.val.isdict
    /\ \/ f.val.format_version \notin {"1.0"}
       \/ f.val.by_rs_kind # "dict"

\* C21: on an existing document with an unsupported format_version, or without
\* a by_rs mapping, every load and every store ends in an error: no data comes
\* back, nothing is coerced, and the file is left as it is.
C21_BadDocumentRefused ==
    [][ /\ BadDocument(file) =>
              /\ adapter_load(file).err = "ValueError"
              /\ adapter_load(file).data = NoDoc
        /\ (BadDocument(file) /\ dlast' # dlast) =>
              /\ dlast'.op \in DocReads \cup {"store"}
              /\ dlast'.before = file
              /\ dlast'.err = "ValueError"
              /\ dlast'.by_rs = <<>>
              /\ file' = file
              /\ ~adapter'.writing ]_vars

C21_Witness ==
    /\ dlast.op = "store"
    /\ dlast.err = "ValueError"
    /\ dlast.before = JsonFile(Doc("2.0", <<OldTok(RS_AB, 1)>>, "v3"))
    /\ file = dlast.before

\* the by_rs mapping a load of the file gives, empty when the load fails
LoadedByRs(f) == adapter_load(f).data.by_rs

\* C22: a store that completes writes, for every resource server of its token
\* response, the record of that response, and for every other resource server
\* exactly the record the file held before, if any; it removes none.
C22_StoreMerges ==
    (dlast.op = "store" /\ dlast.err = "none") =>
        /\ \A i \in DOMAIN dlast.response :
              DictGet(dlast.by_rs, dlast.response[i].resource_server.s) =
                  [found |-> TRUE, record |-> <<dlast.response[i]>>]
        /\ \A rs \in RSNames :
              (\A i \in DOMAIN dlast.response :
                    dlast.response[i].resource_server # PyStr(rs)) =>
                  DictGet(dlast.by_rs, rs) = DictGet(LoadedByRs(dlast.before), rs)
        /\ Len(dlast.by_rs) >= Len(LoadedByRs(dlast.before))

C22_Witness ==
    /\ dlast.op = "store" /\ dlast.err = "none"
    /\ dlast.response = <<OldTok(RS_AB, MaxTime)>>
    /\ LoadedByRs(dlast.before) = <<OldTok(RS_C, 1), OldTok(RS_AB, 1)>>
    /\ dlast.by_rs = <<OldTok(RS_C, 1), OldTok(RS_AB, MaxTime)>>
    /\ file = JsonFile(Doc("1.0", dlast.by_rs, "v1"))

\* C23: at every point of a store(), a reader of the file sees the complete
\* document of before the store or the complete new document, never an empty
\* or partly written file.
C23_StoreAtomic ==
    adapter.writing => file \in {dlast.before, JsonFile(adapter.to_write)}

----------------------------------------------------------------------------
(* Properties of the files' permissions, under SpecPermissions *)

\* C24: after a write by either backend, whether it made the file or the file
\* was there before with group or other bits set, the file allows reading and
\* writing to its owner only
C24_OwnerOnlyAfterWrite ==
    /\ "cfg" \in perm.wrote => perm.cfg.exists /\ perm.cfg.bits \subseteq OwnerOnly
    /\ "doc" \in perm.wrote => perm.doc.exists /\ perm.doc.bits \subseteq OwnerOnly

----------------------------------------------------------------------------
(* Properties of the partition of a run, under Spec *)

\* the partition the options name: config_section when it was given, else the
\* client id
Partition(o) == IF o.config_section = "None" THEN o.client_id ELSE o.config_section

OtherPartitions(o) == SectionNames \ {Partition(o)}

\* C25: a run of native_auth works on one partition, the config_section when it
\* is given and the client id otherwise: the load, the clear and the save of
\* the run all go to that partition, and no other partition is deleted from or
\* written to
C25_OnePartition ==
    [][/\ (pc = "idle" /\ pc' \in {"load", "clear"}) =>
              run'.section = Partition(opts')
       /\ (pc = "load" /\ pc' # "load") =>
              run'.load_err = load_tokens(Partition(opts), opts.requested_scopes,
                                          opts.check_tokens_expired).err
       /\ (pc = "clear" /\ pc' # "clear") =>
              \E revoke_fails_at \in RevokeChoices(Partition(opts)) :
                  store'[Partition(opts)] =
                      clear_tokens(Partition(opts), revoke_fails_at).items
       /\ (pc = "finish" /\ pc' # "finish" /\ SaveWanted(opts)) =>
              store'[Partition(opts)] = save_tokens(run.exchanged, Partition(opts))
       /\ pc # "idle" =>
              \A s \in OtherPartitions(opts) :
                  /\ store'[s] = store[s]
                  /\ (s \in sections') <=> (s \in sections)]_vars

\* a run with config_section given has saved its tokens there, next to a client
\* id partition that holds another set
C25_Witness ==
    /\ pc = "returned"
    /\ opts.config_section = "sec"
    /\ Did("load") /\ Did("clear") /\ Did("save")
    /\ run.section = "sec"
    /\ store["sec"] = save_tokens(run.exchanged, "sec")
    /\ "cid" \in sections
    /\ store["cid"] # EmptyItems
    /\ store["cid"] # store["sec"]

\* C26: the config_filename option names the file a run of native_auth reads
\* its saved tokens from and writes them to
C26_ConfigFilenameUsed ==
    (pc \notin {"idle", "raised"} \/ Did("load") \/ Did("clear")) =>
        run.filename = opts.config_filename

----------------------------------------------------------------------------
(* Properties of the requested scopes, under Spec *)

\* the scopes a requested_scopes value denotes, as an iterable: the words of a
\* space-separated string, the elements of an iterable
AsIterable(requested_scopes) ==
    IF requested_scopes.isStr THEN ReqIter(SplitBlank(requested_scopes.s, <<>>))
    ELSE requested_scopes

\* C27: requested_scopes given as a space-separated string denotes the same
\* scopes as the iterable of its words: the load step of native_auth ends as
\* it would for the iterable, and stored tokens whose scopes are all among the
\* requested ones are returned whichever form was passed
C27_ScopeFormsAgree ==
    [][(pc = "load" /\ pc' # "load") =>
          LET iter == load_tokens(run.section, AsIterable(opts.requested_scopes),
                                  opts.check_tokens_expired)
          IN  /\ run'.load_err = iter.err
              /\ iter.err = "none" => (pc' = "returned" /\ result' = iter)]_vars

----------------------------------------------------------------------------
(* Properties of the redirect target, under Spec *)

\* the caller asked for the copy-paste flow and passed no redirect_uri
CopyPaste == opts.no_local_server = TRUE /\ run.given_redirect = "unset"

----------------------------------------------------------------------------
(* Properties of the two stores side by side, under SpecBackends *)

\* C29: after the same saves, a load from the sectioned store and a load from
\* the document store give the same credential set, and the checks of
\* load_tokens have the same outcome on what either store returns
C29_BackendsAgree ==
    (last.op = "load" /\ dlast.op = "get_by_resource_server" /\ "cid" \in sections) =>
        /\ dlast.err = "none"
        /\ last.err = Validation(dlast.by_rs, last.req, last.chk)
        /\ last.err = "none" => Range(last.tokens) = Range(dlast.by_rs)

----------------------------------------------------------------------------
(* Properties of the listener wait, under SpecListener *)

RunEnded == pc \in {"returned", "raised"}

\* C30: the wait of a run with the listener has no timeout. While no redirect
\* with a code or an error has arrived the run stays in the wait, whatever
\* else happens and however long it takes; once one has arrived the run goes
\* on to return or to raise
C30_WaitEndsOnRedirectOnly ==
    /\ [][(pc = "wait" /\ run.outcome.kind \notin {"code", "error"}) =>
             pc' = "wait"]_vars
    /\ (pc = "wait" /\ run.outcome.kind \in {"code", "error"}) ~> RunEnded

\* a run is in the wait, every request that came was no redirect, and no more
\* will come
C30_Witness ==
    /\ pc = "wait"
    /\ opts.no_local_server = FALSE
    /\ run.listener = "bound"
    /\ run.outcome = NoRequest
    /\ run.requests = MaxRequests
    /\ run.ignored = MaxRequests
    /\ now = MaxTime

----------------------------------------------------------------------------
(* Properties of two writers, under SpecWriters *)

WritersDone == \A w \in Writers : writers.proc[w].state = "done"

\* the entries save_tokens of writer w sets, and those of them that are fields
WrittenItems(w) == serialize_token_groups(writers.proc[w].tokens)

FieldKeys(w) == DOMAIN WrittenItems(w) \ {CONFIG_TOKEN_GROUPS}

\* every field key of writer w is stored with the value w wrote
FieldsFrom(w) ==
    \A k \in FieldKeys(w) :
        k \in DOMAIN store["cid"] /\ store["cid"][k] = WrittenItems(w)[k]

\* a key that writer w set is not in the section
LostKeys(w) == \E k \in DOMAIN WrittenItems(w) : k \notin DOMAIN store["cid"]

\* the record of w's resource server is stored with fields of both writers
MixedRecord(w) ==
    /\ FieldKeys(w) = FieldKeys(Other(w))
    /\ ~LostKeys(w)
    /\ ~FieldsFrom(w) /\ ~FieldsFrom(Other(w))

\* the section after the save of w: no key of w is lost, and the record of
\* w's resource server is w's, or the other writer's when both wrote it
SectionIntact(w) ==
    /\ ~LostKeys(w)
    /\ \/ FieldsFrom(w)
       \/ FieldKeys(w) = FieldKeys(Other(w)) /\ FieldsFrom(Other(w))
    /\ \E v \in Writers :
          /\ writers.proc[v].job = "kv"
          /\ store["cid"][CONFIG_TOKEN_GROUPS] = WrittenItems(v)[CONFIG_TOKEN_GROUPS]

\* the entry of the document for the resource server of record r
StoredEntry(r) == DictGet(adapter_load(file).data.by_rs, r.resource_server.s)

\* the document after the store of w: every resource server w stored has an
\* entry, which is w's record or the other writer's record of it
DocumentIntact(w) ==
    /\ writers.proc[w].err = "none"
    /\ \A i \in DOMAIN writers.proc[w].tokens :
          LET r == writers.proc[w].tokens[i]
          IN  /\ StoredEntry(r).found
              /\ \/ StoredEntry(r).record = <<r>>
                 \/ /\ writers.proc[Other(w)].job = "doc"
                    /\ StoredEntry(r).record \in
                          {<<writers.proc[Other(w)].tokens[j]>> :
                              j \in DOMAIN writers.proc[Other(w)].tokens}

Intact(w) ==
    IF writers.proc[w].job = "kv" THEN SectionIntact(w) ELSE DocumentIntact(w)

\* C31: two writers that save to the same section, or store to the same
\* document, one after the other leave every key and every resource-server
\* entry either of them wrote, and every record whole; writers whose
\* read-modify-write steps interleave can leave a record with fields of both,
\* or lose keys or entries of one of them
C31_SerializedWritersIntact ==
    (WritersDone /\ ~writers.overlapped) => \A w \in Writers : Intact(w)

\* two overlapping save_tokens calls have ended and the record of their
\* resource server has fields of both
C31_Witness ==
    /\ WritersDone
    /\ writers.overlapped
    /\ \A w \in Writers : writers.proc[w].job = "kv"
    /\ MixedRecord(1)
    /\ store["cid"][serialize_token(RS_AB, KeyChars.access_token)] = <<"n">>
    /\ store["cid"][serialize_token(RS_AB, KeyChars.scope)] = SC_X

----------------------------------------------------------------------------
(* Properties of the order of a run's steps, under Spec *)

\* what the run has done after its load, if it made one
FlowEvents == IF events # <<>> /\ Head(events) = "load" THEN Tail(events) ELSE events

ListenerOrder ==
    <<"clear", "client", "acquire", "prompt", "wait", "release", "exchange", "save">>

ManualOrder == <<"clear", "client", "prompt", "input", "exchange", "save">>

IsPrefix(a, b) == Len(a) <= Len(b) /\ \A i \in DOMAIN a : a[i] = b[i]

RunEnds == pc \in {"returned", "raised"}

\* C32: the steps of a fresh flow come in one order: clear, authorization
\* request and URL, listener acquired, URL presented, wait, listener released,
\* exchange, save; no request reaches the listener before it is acquired; and a
\* run whose own steps are taken whenever they can be comes to its end, or to
\* the wait for a redirect that has not arrived, or to the read of the typed
\* code: it stops nowhere else
C32_StepOrder ==
    /\ [](InRun =>
            /\ IsPrefix(FlowEvents, IF opts.no_local_server = FALSE THEN ListenerOrder
                                    ELSE ManualOrder)
            /\ (run.requests > 0 \/ run.outcome # NoRequest) =>
                   (Did("acquire") /\ ~Did("release")))
    /\ (InRun /\ ~RunEnds) ~>
          \/ RunEnds
          \/ pc = "wait" /\ run.outcome = NoRequest
          \/ pc = "input"

\* a run with the listener has gone through every step, the save included
C32_Witness ==
    /\ pc = "returned"
    /\ events = <<"load">> \o ListenerOrder
    /\ run.listener = "released"
    /\ store[run.section] = save_tokens(run.exchanged, run.section)

----------------------------------------------------------------------------
(* Properties of the written document, under SpecDocument *)

\* C33: every document store() writes carries the version of the SDK that
\* wrote it as its "globus-sdk.version", also when the document was there
\* before and came from another version, and a supported format_version
C33_WrittenByThisVersion ==
    [][(adapter.writing /\ file' # file) =>
          /\ file'.kind = "json"
          /\ file'.val.version = SDK_VERSION
          /\ file'.val.format_version \in supported_versions]_vars

----------------------------------------------------------------------------
(* Properties of the key namespaces, under SpecStorage *)

\* the namespace of the keys of a record
Namespace(token_set) == serialize_token(token_set.resource_server.s, <<>>)

\* a set with a positive expiry in every record, which the int-to-falsy pass
\* of the load leaves alone
PositiveExpiry(tokens) ==
    \A i \in DOMAIN tokens : tokens[i].expires_at_seconds.n >= 1

\* C34: the records of distinct resource servers of one saved set have
\* distinct key namespaces and share no key, so that a set of n resource
\* servers, "a.b" and "a_b" among them, is stored under n index entries and
\* 6n field keys and loads as n records, each as it was saved
C34_NamespacesDistinct ==
    (last.op = "save" /\ WellFormed(last.tokens) /\ PositiveExpiry(last.tokens)) =>
        /\ \A i, j \in DOMAIN last.tokens :
              Namespace(last.tokens[i]) = Namespace(last.tokens[j]) => i = j
        /\ Cardinality(DOMAIN serialize_token_groups(last.tokens)) =
              6 * Len(last.tokens) + 1
        /\ LET r == load_tokens(last.section, NoScopes, FALSE)
           IN  /\ r.err = "none"
               /\ Len(r.tokens) = Len(last.tokens)
               /\ \A i \in DOMAIN last.tokens :
                     \E j \in DOMAIN r.tokens : r.tokens[j] = last.tokens[i]

----------------------------------------------------------------------------
(* Properties of what a clear leaves behind, under SpecStorage *)

\* the access_token keys a section holds, whichever record they belong to
AccessTokenKeys(items) ==
    {k \in DOMAIN items : \E rs \in RSNames : k = serialize_token(rs, KeyChars.access_token)}

\* the section has an index and every indexed record has all of its fields, so
\* that a load of it without the expiry test succeeds
Indexed(items) ==
    LET loaded == deserialize_token_groups([none |-> FALSE, items |-> items])
    IN  /\ ~loaded.raised
        /\ loaded.tokens # <<>>
        /\ \A i \in DOMAIN loaded.tokens : Missing(loaded.tokens[i]) = {}

\* C35: when a clear_tokens call has returned, the section holds no access
\* token that was ever saved to it; stated for a section whose index named only
\* complete records before the call, so that the call went on to delete: also
\* the access token of a set saved before the indexed one is gone
C35_ClearLeavesNoAccessToken ==
    (last.op = "clear" /\ last.err = "none" /\ Indexed(last.before)) =>
        AccessTokenKeys(store[last.section]) = {}

----------------------------------------------------------------------------
(* Properties of the order of the checks of a load, under SpecStorage *)

\* what a section gives when it is read
Loaded(section) == deserialize_token_groups(get_section(section))

\* the section is missing or cannot be read, or a record lacks a required field
Malformed(section) ==
    \/ Loaded(section).raised
    \/ \E i \in DOMAIN Loaded(section).tokens : Missing(Loaded(section).tokens[i]) # {}

\* the loaded scopes are not all among the requested ones
FailsScopes(section, req) == ReqTruthy(req) /\ ScopeMismatch(Loaded(section).tokens, req)

\* the expiry is tested and a record is past it
FailsExpiry(section, chk) ==
    chk /\ \E i \in DOMAIN Loaded(section).tokens : Expired(Loaded(section).tokens[i])

\* C36: the checks of load_tokens come in one order whatever else applies: in
\* every call, a missing or malformed store gives ConfigError, then a scope
\* mismatch gives RequestedScopesMismatch, and LoadedTokensExpired is raised
\* only for a well-formed set that passes the scope check
C36_CheckOrder ==
    [][\A req \in RequestedChoices, chk \in BOOLEAN :
          LoadTokens("cid", req, chk) =>
              /\ Malformed("cid") => last'.err = "ConfigError"
              /\ (~Malformed("cid") /\ FailsScopes("cid", req)) =>
                     last'.err = "RequestedScopesMismatch"
              /\ last'.err = "LoadedTokensExpired" =>
                     (~Malformed("cid") /\ ~FailsScopes("cid", req) /\ FailsExpiry("cid", chk))
              /\ last'.err = "RequestedScopesMismatch" => ~Malformed("cid")
              /\ last'.err = "none" =>
                     /\ ~Malformed("cid")
                     /\ ~FailsScopes("cid", req)
                     /\ ~FailsExpiry("cid", chk)]_vars

\* a load of a well-formed set that fails the scope check and, with a record
\* that expired at time 1, the expiry test too: it reports the scopes
C36_Witness ==
    /\ last.op = "load"
    /\ last.chk
    /\ ~Malformed(last.section)
    /\ FailsScopes(last.section, last.req)
    /\ \E i \in DOMAIN Loaded(last.section).tokens :
          Loaded(last.section).tokens[i].expires_at_seconds.n = 1
    /\ last.err = "RequestedScopesMismatch"

----------------------------------------------------------------------------
(* Properties of a run that raises after its clear, under Spec *)

\* the run has raised in the fresh flow, after its clear step had returned
RaisedAfterClear == pc = "raised" /\ Did("clear") /\ Did("client")

\* C37: a run of native_auth that raises in the fresh flow after the clear step
\* (the listener cannot be had, the redirect is an error, the exchange fails)
\* has made no save, and its partition holds no loadable set: load_tokens on it
\* fails for every choice of requested scopes and of the expiry test
C37_NothingLoadableAfterRaise ==
    RaisedAfterClear =>
        /\ ~Did("save")
        /\ \A req \in RequestedChoices, chk \in BOOLEAN :
              load_tokens(run.section, req, chk).err # "none"

\* the exchange has failed in a run that found a live set stored, and the
\* clear has revoked and deleted it
C37_Witness ==
    /\ RaisedAfterClear
    /\ result = Raise("AuthAPIError")
    /\ Did("exchange")
    /\ run.revoked # <<>>
    /\ run.before # EmptyItems
    /\ store[run.section] = EmptyItems

----------------------------------------------------------------------------
(* Properties of a run without save_tokens, under Spec *)

\* a run of native_auth with save_tokens left False
RunWithoutSave == InRun /\ opts.save_tokens = FALSE

\* C38 as claimed: with save_tokens left False a run never modifies the stored
\* credentials of its partition, whatever was stored and whatever force_login
\* is: the stored keys stay as they were before the run and no stored token is
\* revoked
C38_NoChangeWithoutSave ==
    RunWithoutSave =>
        /\ store[run.section] = run.before
        /\ run.revoked = <<>>

\* C38 amended: with save_tokens left False a run never writes to its
\* partition; a run that returns the stored set leaves the partition as it was
\* and revokes nothing; a run that goes through the fresh flow changes the
\* partition through its clear step only, so that every entry stored after it
\* was stored before it with the same value, and every token it revoked was a
\* stored access token
C38_OnlyClearWithoutSave ==
    RunWithoutSave =>
        /\ ~Did("save")
        /\ ~Did("clear") =>
              /\ store[run.section] = run.before
              /\ run.revoked = <<>>
        /\ \A k \in DOMAIN store[run.section] :
              k \in DOMAIN run.before /\ store[run.section][k] = run.before[k]
        /\ \A i \in DOMAIN run.revoked :
              \E k \in AccessTokenKeys(run.before) : run.before[k] = run.revoked[i]

\* a forced login without save_tokens has returned the exchanged set, and the
\* live set that was stored is revoked and deleted
C38_Witness ==
    /\ RunWithoutSave
    /\ opts.force_login = TRUE
    /\ pc = "returned"
    /\ result = Ok(run.exchanged)
    /\ Did("clear") /\ Did("exchange")
    /\ run.before = serialize_token_groups(<<OldTok(RS_AB, MaxTime)>>)
    /\ run.revoked = <<OldTok(RS_AB, MaxTime).access_token.s>>
    /\ store[run.section] = EmptyItems

====
